---- MODULE Spec2Model ----
(***************************************************************************)
(* A model of the Badly Coded image decoder (bcimgview-core1/-core2 and    *)
(* the viewer's main) built from the C sources.  Bytes are 0..255, a       *)
(* 32-bit register is a sequence of 32 bits with index 1 the most          *)
(* significant bit (C bit 31), and 64-bit quantities are little-endian     *)
(* sequences of base-256 limbs, because the model checker's integers are   *)
(* 32 bits wide.                                                           *)
(***************************************************************************)
EXTENDS Integers, Sequences, FiniteSets, TLC

-----------------------------------------------------------------------------
(* Program constants                                                       *)

FLATBUF == 100

EXPANSION == 8

-----------------------------------------------------------------------------
(* Bit-level helpers for the shift register of decode_flat                 *)

RECURSIVE Pow2(_)
Pow2(n) == IF n = 0 THEN 1 ELSE 2 * Pow2(n - 1)

Min(a, b) == IF a < b THEN a ELSE b

Max(a, b) == IF a > b THEN a ELSE b

\* the 8 bits of a byte, most significant first
ByteBits(b) == [i \in 1..8 |-> (b \div Pow2(8 - i)) % 2]

Zero32 == [i \in 1..32 |-> 0]

\* (reg >> (32 - (i + n - 1))) & ((1 << n) - 1): the n bits starting at
\* most-significant-first index i, as a number
RECURSIVE Field(_, _, _)
Field(r, i, n) == IF n = 0 THEN 0
                  ELSE 2 * Field(r, i, n - 1) + r[i + n - 1]

\* reg |= byte << ((32 - 8) - reg_size)
OrByte(r, b, rs) ==
    [i \in 1..32 |-> IF i > rs /\ i <= rs + 8
                     THEN Max(r[i], ByteBits(b)[i - rs])
                     ELSE r[i]]

\* reg <<= codelen
ShiftLeft(r, n) == [i \in 1..32 |-> IF i + n <= 32 THEN r[i + n] ELSE 0]

\* reg &= ~(0xff << (32 - reg_size))
ClearByte(r, rs) == [i \in 1..32 |-> IF i >= rs - 7 /\ i <= rs THEN 0 ELSE r[i]]

\* unsigned char arithmetic: last + diff
AddByte(v, d) == (v + d + 256) % 256

-----------------------------------------------------------------------------
(* decode_flat: the codeword tree (bcimgview-core2.c lines 132-237)        *)

diffs2 == <<2, 3, -3, -2>>

diffs3 == <<4, 5, 6, 7, -7, -6, -5, -4>>

bases == <<8, -15, 16, -31, 32, -63, 64, -127>>

\* 00...: repeated zero differences
ZerosCode(r) ==
    IF Field(r, 1, 3) = 0 THEN [num |-> 2, codelen |-> 3, bad |-> FALSE]
    ELSE IF Field(r, 1, 4) = 2 THEN [num |-> 3, codelen |-> 4, bad |-> FALSE]
    ELSE IF Field(r, 1, 5) = 6 THEN [num |-> 4, codelen |-> 5, bad |-> FALSE]
    ELSE IF Field(r, 1, 5) = 7
         THEN [num |-> 5 + Field(r, 6, 2), codelen |-> 7, bad |-> FALSE]
    ELSE [num |-> 0, codelen |-> 0, bad |-> TRUE]

\* 01...: repeated small differences
RepCode(r) ==
    LET amt == Field(r, 5, 2)
    IN  [num |-> IF r[3] = 1 THEN 3 ELSE 2,
         diff |-> IF r[4] = 1 THEN -4 + amt ELSE 1 + amt,
         codelen |-> 6]

\* OneCode with the extension width of the 1110 band taken from the whole
\* subtype instead of subtype >> 1
OneCode_wide(r) ==
    IF Field(r, 1, 3) = 4 THEN [diff |-> 0, codelen |-> 3, bad |-> FALSE]
    ELSE IF Field(r, 1, 3) = 5
         THEN [diff |-> IF Field(r, 1, 4) = 10 THEN 1 ELSE -1,
               codelen |-> 4, bad |-> FALSE]
    ELSE IF Field(r, 1, 4) = 12
         THEN [diff |-> diffs2[Field(r, 5, 2) + 1], codelen |-> 6, bad |-> FALSE]
    ELSE IF Field(r, 1, 4) = 13
         THEN [diff |-> diffs3[Field(r, 5, 3) + 1], codelen |-> 7, bad |-> FALSE]
    ELSE IF Field(r, 1, 4) = 14
         THEN LET subtype == Field(r, 5, 3)
                  amt == Field(r, 8, 3 + (subtype \div 2))
              IN  [diff |-> bases[subtype + 1] + amt,
                   codelen |-> 10 + Min(subtype, 3), bad |-> FALSE]
    ELSE IF Field(r, 1, 4) = 15
         THEN [diff |-> -128, codelen |-> 7, bad |-> FALSE]
    ELSE [diff |-> 0, codelen |-> 0, bad |-> TRUE]

\* 1...: one sample difference
OneCode(r) ==
    IF Field(r, 1, 3) = 4 THEN [diff |-> 0, codelen |-> 3, bad |-> FALSE]
    ELSE IF Field(r, 1, 3) = 5
         THEN [diff |-> IF Field(r, 1, 4) = 10 THEN 1 ELSE -1,
               codelen |-> 4, bad |-> FALSE]
    ELSE IF Field(r, 1, 4) = 12
         THEN [diff |-> diffs2[Field(r, 5, 2) + 1], codelen |-> 6, bad |-> FALSE]
    ELSE IF Field(r, 1, 4) = 13
         THEN [diff |-> diffs3[Field(r, 5, 3) + 1], codelen |-> 7, bad |-> FALSE]
    ELSE IF Field(r, 1, 4) = 14
         THEN LET subtype == Field(r, 5, 3)
                  amt == Field(r, 8, 3 + (subtype \div 2))
              IN  [diff |-> bases[subtype + 1] + amt,
                   codelen |-> 10 + (subtype \div 2), bad |-> FALSE]
    ELSE IF Field(r, 1, 4) = 15
         THEN [diff |-> -128, codelen |-> 7, bad |-> FALSE]
    ELSE [diff |-> 0, codelen |-> 0, bad |-> TRUE]

\* The whole tree: which branch is taken, the codeword length, and the
\* samples the branch writes through q starting from `last'.
MatchCode(r, last) ==
    IF r[1] = 0 /\ r[2] = 0
    THEN LET c == ZerosCode(r)
         IN  [branch |-> "zeros", codelen |-> c.codelen, bad |-> c.bad,
              out |-> [i \in 1..c.num |-> last], last |-> last]
    ELSE IF r[1] = 0 /\ r[2] = 1
    THEN LET c == RepCode(r)
         IN  [branch |-> "rep", codelen |-> c.codelen, bad |-> FALSE,
              out |-> [i \in 1..c.num |-> AddByte(last, i * c.diff)],
              last |-> AddByte(last, c.num * c.diff)]
    ELSE LET c == OneCode(r)
         IN  [branch |-> "one", codelen |-> c.codelen, bad |-> c.bad \/ r[1] # 1,
              out |-> <<AddByte(last, c.diff)>>,
              last |-> AddByte(last, c.diff)]

-----------------------------------------------------------------------------
(* decode_flat: the activation record and its loop                         *)

\* Entry (lines 88-108).  comp_buf holds the comp_size input bytes and the
\* two zero pad bytes; what lies behind them was never written.
DfEntry(comp_p, max_pixels, st) ==
    [comp_buf |-> comp_p \o <<0, 0>>,
     comp_size |-> Len(comp_p),
     max_pixels |-> max_pixels,
     reg |-> st.reg, reg_size |-> st.reg_size, last |-> st.last,
     padding_bits |-> 0, p |-> 0, num_pixels |-> 0, uncomp_buf |-> <<>>,
     brk |-> FALSE, aborted |-> FALSE, oob |-> FALSE, smash |-> FALSE,
     g_entry |-> st.reg_size, g_retired |-> 0,
     ev |-> [kind |-> "entry", codelen |-> 0, genuine |-> st.reg_size,
             bits |-> 0, last0 |-> st.last, n0 |-> 0]]

\* while (num_pixels < max_pixels && p < comp_buf + comp_size + 2)
DfCond(f) == f.num_pixels < f.max_pixels /\ f.p < f.comp_size + 2

\* *p: a byte of the copy, or whatever the memory behind the pad holds
CompByte(f, junk) == IF f.p < Len(f.comp_buf) THEN f.comp_buf[f.p + 1] ELSE junk

\* while (reg_size < 13) { ... } (lines 115-124)
RECURSIVE DfLoad(_, _)
DfLoad(f, junk) ==
    IF f.reg_size < 13
    THEN DfLoad([f EXCEPT
                   !.padding_bits = IF f.p >= f.comp_size THEN @ + 8 ELSE @,
                   !.reg = OrByte(@, CompByte(f, junk), f.reg_size),
                   !.reg_size = @ + 8,
                   !.p = @ + 1,
                   !.oob = @ \/ f.p >= f.comp_size + 2], junk)
    ELSE f

\* PaddingStop never stopping the loop
PaddingStop_never(codelen, reg_size, padding_bits) == FALSE

\* PaddingStop comparing against the whole register, pad bits included
PaddingStop_whole(codelen, reg_size, padding_bits) == codelen > reg_size

\* codelen > (reg_size - padding_bits), reg_size being an unsigned int
PaddingStop(codelen, reg_size, padding_bits) ==
    IF reg_size - padding_bits < 0 THEN FALSE
    ELSE codelen > reg_size - padding_bits

\* One pass through the body of the outer loop (lines 111-242)
DfIter(f0, junk) ==
    LET f == DfLoad(f0, junk)
        m == MatchCode(f.reg, f.last)
        genuine == f.g_entry + 8 * Min(f.p, f.comp_size) - f.g_retired
    IN  IF m.bad
        THEN [f EXCEPT !.aborted = TRUE,
                       !.ev = [kind |-> "assert", codelen |-> 0, genuine |-> genuine,
                               bits |-> Field(f.reg, 1, 13), last0 |-> f.last,
                               n0 |-> f.num_pixels]]
        ELSE IF PaddingStop(m.codelen, f.reg_size, f.padding_bits)
        THEN [f EXCEPT !.brk = TRUE,
                       !.ev = [kind |-> "break", codelen |-> m.codelen,
                               genuine |-> genuine,
                               bits |-> Field(f.reg, 1, 13), last0 |-> f.last,
                               n0 |-> f.num_pixels]]
        ELSE [f EXCEPT !.uncomp_buf = @ \o m.out,
                       !.smash = @ \/ Len(f.uncomp_buf) + Len(m.out)
                                        > EXPANSION * (FLATBUF + 1),
                       !.last = m.last,
                       !.num_pixels = @ + Len(m.out),
                       !.reg = ShiftLeft(@, m.codelen),
                       !.reg_size = @ - m.codelen,
                       !.g_retired = @ + m.codelen,
                       !.ev = [kind |-> "retire", codelen |-> m.codelen,
                               genuine |-> genuine,
                               bits |-> Field(f.reg, 1, 13), last0 |-> f.last,
                               n0 |-> f.num_pixels]]

\* while (reg_size >= 8) { ... p--; } (lines 250-254)
RECURSIVE DfUnget(_)

\* DfUnget giving nothing back
DfUnget_none(f) == f

DfUnget(f) ==
    IF f.reg_size >= 8
    THEN DfUnget([f EXCEPT !.reg = ClearByte(@, f.reg_size),
                           !.reg_size = @ - 8,
                           !.p = @ - 1])
    ELSE f

\* DfTail reporting every byte it was given as consumed
DfTail_all(f0) ==
    LET f == DfUnget(f0)
    IN  [aborted |-> f.num_pixels > f.max_pixels + EXPANSION,
         comp_size |-> f.comp_size,
         num_pixels |-> f.num_pixels,
         pixel_buf |-> f.uncomp_buf,
         state |-> [reg |-> f.reg, reg_size |-> f.reg_size, last |-> f.last]]

\* Lines 250-272: what the call hands back through its pointer arguments
DfTail(f0) ==
    LET f == DfUnget(f0)
    IN  [aborted |-> f.num_pixels > f.max_pixels + EXPANSION,
         comp_size |-> Min(f.comp_size, f.p),
         num_pixels |-> f.num_pixels,
         pixel_buf |-> f.uncomp_buf,
         state |-> [reg |-> f.reg, reg_size |-> f.reg_size, last |-> f.last]]

-----------------------------------------------------------------------------
(* 64-bit arithmetic.  A number is a sequence of base-256 limbs, least     *)
(* significant first; a uint64_t / long has 8 of them.                     *)

\* the k low limbs of a natural number n
Limbs(n, k) == [i \in 1..k |-> (n \div Pow2(8 * (i - 1))) % 256]

U64(n) == [i \in 1..8 |-> IF i <= 3 THEN (n \div Pow2(8 * (i - 1))) % 256
                          ELSE IF i = 4 THEN n \div Pow2(24) ELSE 0]

AllOnes == [i \in 1..8 |-> 255]

\* the value of a number known to be below 2^31
RECURSIVE ToInt(_)
ToInt(a) == IF Len(a) = 0 THEN 0
            ELSE a[1] + 256 * ToInt(SubSeq(a, 2, Len(a)))

FitsInt(a) == /\ \A i \in 5..Len(a) : a[i] = 0
              /\ Len(a) >= 4 => a[4] < 128

\* widen or truncate to k limbs (zero extension)
Resize(a, k) == [i \in 1..k |-> IF i <= Len(a) THEN a[i] ELSE 0]

IsZero(a) == \A i \in 1..Len(a) : a[i] = 0

\* unsigned a < b for numbers of equal length
RECURSIVE LessU(_, _)
LessU(a, b) ==
    IF Len(a) = 0 THEN FALSE
    ELSE LET n == Len(a)
         IN  IF a[n] # b[n] THEN a[n] < b[n]
             ELSE LessU(SubSeq(a, 1, n - 1), SubSeq(b, 1, n - 1))

\* the sign bit of a long
IsNeg(a) == a[8] >= 128

\* signed a < b for two longs
LessS(a, b) ==
    IF IsNeg(a) # IsNeg(b) THEN IsNeg(a) ELSE LessU(a, b)

\* column j of the schoolbook product
RECURSIVE MulCol(_, _, _, _)
MulCol(a, b, j, i) ==
    IF i > Len(a) \/ i > j THEN 0
    ELSE (IF j - i + 1 <= Len(b) THEN a[i] * b[j - i + 1] ELSE 0)
         + MulCol(a, b, j, i + 1)

RECURSIVE MulCarry(_, _, _, _, _)
MulCarry(a, b, k, j, carry) ==
    IF j > k THEN <<>>
    ELSE LET t == MulCol(a, b, j, 1) + carry
         IN  <<t % 256>> \o MulCarry(a, b, k, j + 1, t \div 256)

\* a * b modulo 256^k
Mul(a, b, k) == MulCarry(a, b, k, 1, 0)

\* a / d for a small divisor d, limb by limb from the top
RECURSIVE DivSmallRun(_, _, _, _)
DivSmallRun(a, d, i, rem) ==
    IF i = 0 THEN <<>>
    ELSE LET t == rem * 256 + a[i]
         IN  DivSmallRun(a, d, i - 1, t % d) \o <<t \div d>>

DivSmall(a, d) == DivSmallRun(a, d, Len(a), 0)

\* 2^e as an 8-limb number
PowLimb(e) == [i \in 1..8 |-> IF i = (e \div 8) + 1 THEN Pow2(e % 8) ELSE 0]

AddLimb(a, b) ==
    LET RECURSIVE Go(_, _)
        Go(i, carry) ==
            IF i > Len(a) THEN <<>>
            ELSE LET t == a[i] + b[i] + carry
                 IN  <<t % 256>> \o Go(i + 1, t \div 256)
    IN  Go(1, 0)

\* floor of the square root of an unsigned 64-bit number, bit by bit
RECURSIVE SqrtBits(_, _, _)
SqrtBits(x, r, e) ==
    IF e < 0 THEN r
    ELSE LET c == AddLimb(r, PowLimb(e))
             sq == Mul(c, c, 16)
         IN  IF LessU(Resize(x, 16), sq) THEN SqrtBits(x, r, e - 1)
             ELSE SqrtBits(x, c, e - 1)

Isqrt(x) == SqrtBits(x, U64(0), 31)

-----------------------------------------------------------------------------
(* State                                                                   *)

VARIABLES
    pc,             \* where the program is
    file,           \* the bytes of the file being read (FILE *fh)
    fpos,           \* the read position of fh
    format_problem, \* const char *format_problem
    logging_fmt,    \* const char *logging_fmt, with where the string came from
    size_limit,     \* long size_limit
    fmt,            \* which decoder parse_image dispatched to
    heap,           \* the block xmalloc gave for the pixels: none, live or freed
    mem,            \* the bytes of that block: pixels, padding, trailing image_info
    trailer,        \* info_footer, as an offset into the block
    info,           \* the image_info parse_image returns, or "null"
    hdr,            \* parse_bc*: long width, height; int num_bytes
    diag,           \* what parse_image wrote to stderr for this file
    given,          \* the file as it was before it was cut short
    feed,           \* a row fed to decode_flat in pieces: what came out so far
    files,          \* the files the user is still going to open
    printed,        \* the calls of printf(logging_fmt, ...) made so far
    channel,        \* read_flat_data: int channel
    y,              \* read_flat_data: int y
    x,              \* read_flat_data: int x
    buf,            \* read_flat_data: the buf_read_pos buffered bytes of buf
    buf_read_pos,   \* read_flat_data: int buf_read_pos
    after,          \* what read_flat_data did with the last decode_flat result
    pass,           \* read_prog_data: which of the three passes is running
    row,            \* read_prog_data: int row
    written,        \* the rows read_prog_data has stored so far, in order
    col,            \* read_raw_data: int col
    p,              \* read_raw_data: unsigned char *p, as an offset in the block
    df,             \* decode_flat's activation record (locals of one call)
    state,          \* read_flat_data: struct flat_decode_state state
    comp_size,      \* read_flat_data: int comp_size (in/out of decode_flat)
    num_pixels,     \* read_flat_data: int num_pixels (in/out of decode_flat)
    pixel_buf,      \* read_flat_data: the samples decode_flat copied out
    herbivore_list, \* ps1-animals: struct herbivore *herbivore_list
    carnivore_list, \* ps1-animals: struct carnivore *carnivore_list
    animals_by_num, \* ps1-animals: void *animals_by_num[NUM_ANIMALS]
    cells,          \* ps1-animals: the blocks malloc hands out, by address
    listed          \* ps1-animals: what the last list_animals printed

logVars == <<files, printed>>

zooVars == <<herbivore_list, carnivore_list, animals_by_num, cells, listed>>

parseVars == <<file, fpos, format_problem, logging_fmt, size_limit, fmt, heap,
               mem, trailer, info, hdr, diag, given, feed, logVars, zooVars>>

rawVars == <<col, p>>

progVars == <<pass, row, written, rawVars>>

rowVars == <<channel, y, x, buf, buf_read_pos, after, progVars>>

callVars == <<state, comp_size, num_pixels, pixel_buf>>

vars == <<pc, parseVars, rowVars, df, callVars>>

\* "Displaying image of width %ld and height %ld from %s"
DefaultFmt ==
    <<68, 105, 115, 112, 108, 97, 121, 105, 110, 103, 32, 105, 109, 97, 103,
      101, 32, 111, 102, 32, 119, 105, 100, 116, 104, 32, 37, 108, 100, 32,
      97, 110, 100, 32, 104, 101, 105, 103, 104, 116, 32, 37, 108, 100, 32,
      102, 114, 111, 109, 32, 37, 115>>

NoHdr == [width |-> U64(0), height |-> U64(0), num_bytes |-> 0]

\* no row is being fed in pieces
NoFeed ==
    [width |-> 0, first |-> 0, out |-> <<>>, consumed |-> 0, progress |-> TRUE,
     calls |-> 0, stops |-> 0]

\* no more files to open, nothing printed
NoLog == files = <<>> /\ printed = <<>>

\* #define NUM_ANIMALS 256
NUM_ANIMALS == 256

\* how many blocks of the size of an animal the allocator has
MaxCells == 2

\* the numbers the user gives with h, c and r: 1 and 257 share a slot
AnimalNums == {1, 2, 257}

\* int loc = x & (NUM_ANIMALS - 1), for the x >= 0 written n here
Loc(n) == n % NUM_ANIMALS

\* the slots of animals_by_num the numbers of AnimalNums fall in
Slots == {Loc(n) : n \in AnimalNums}

\* a block malloc has never handed out
NoCell == [alloc |-> "never", next |-> 0, word |-> [as |-> "none", v |-> 0]]

\* a block given back with free: what it holds is no longer the program's
FreedCell == [alloc |-> "freed", next |-> 0, word |-> [as |-> "none", v |-> 0]]

\* ps1-animals has just started: both lists empty, animals_by_num all null
NoZoo ==
    /\ herbivore_list = 0
    /\ carnivore_list = 0
    /\ animals_by_num = [s \in Slots |-> 0]
    /\ cells = [a \in 1..MaxCells |-> NoCell]
    /\ listed = <<>>

\* no file is open and nothing has been allocated
NoFile ==
    /\ file = <<>>
    /\ fpos = 0
    /\ format_problem = "null"
    /\ logging_fmt = [origin |-> "static", text |-> DefaultFmt]
    /\ size_limit = U64(26754)
    /\ fmt = "none"
    /\ heap = "none"
    /\ mem = <<>>
    /\ trailer = 0
    /\ info = "null"
    /\ hdr = NoHdr
    /\ diag = <<>>
    /\ given = [valid |-> FALSE, full |-> <<>>, endless |-> FALSE]
    /\ feed = NoFeed
    /\ NoLog
    /\ NoZoo

\* neither read_flat_data nor read_prog_data is running
NoRow ==
    /\ channel = 0
    /\ y = 0
    /\ x = 0
    /\ buf = <<>>
    /\ buf_read_pos = 0
    /\ after = [kind |-> "none"]
    /\ pass = 0
    /\ row = 0
    /\ written = <<>>
    /\ col = 0
    /\ p = 0

\* the first n bits of byte b in an otherwise empty register
CarryReg(b, n) == [i \in 1..32 |-> IF i <= n THEN ByteBits(b)[i] ELSE 0]

-----------------------------------------------------------------------------
(* One call of decode_flat, an iteration of its loop at a time             *)

JunkBytes == {0, 255}

\* read_flat_data line 341-342: num_pixels = max_pixels; decode_flat(...)
CallDecode(comp_p, max_pixels, st) ==
    /\ pc' = "df_loop"
    /\ df' = DfEntry(comp_p, max_pixels, st)
    /\ state' = st
    /\ comp_size' = Len(comp_p)
    /\ num_pixels' = max_pixels

DecodeLoop ==
    /\ pc = "df_loop"
    /\ IF DfCond(df)
       THEN \E junk \in JunkBytes :
              /\ df' = DfIter(df, junk)
              /\ pc' = IF df'.aborted THEN "aborted"
                       ELSE IF df'.smash \/ df'.oob THEN "undefined"
                       ELSE IF df'.brk THEN "df_tail"
                       ELSE "df_loop"
       ELSE /\ pc' = "df_tail"
            /\ df' = df
    /\ UNCHANGED <<parseVars, rowVars, callVars>>

DecodeTail ==
    /\ pc = "df_tail"
    /\ LET r == DfTail(df)
       IN  /\ df' = DfUnget(df)
           /\ IF r.aborted
              THEN /\ pc' = "aborted"
                   /\ UNCHANGED <<state, comp_size, num_pixels, pixel_buf>>
              ELSE /\ pc' = "df_ret"
                   /\ state' = r.state
                   /\ comp_size' = r.comp_size
                   /\ num_pixels' = r.num_pixels
                   /\ pixel_buf' = r.pixel_buf
    /\ UNCHANGED <<parseVars, rowVars>>

NextDecode == DecodeLoop \/ DecodeTail

\* Every 13-bit register content: five carried bits and one input byte,
\* with room for one more sample in the row.
LastVals == {0, 127, 200}

InitCode ==
    /\ pc = "df_loop"
    /\ \E b \in 0..255, c \in 0..31, l \in LastVals :
         /\ state = [reg |-> CarryReg(8 * c, 5), reg_size |-> 5, last |-> l]
         /\ df = DfEntry(<<b>>, 1, state)
         /\ comp_size = 1
         /\ num_pixels = 1
    /\ pixel_buf = <<>>
    /\ NoFile
    /\ NoRow

SpecCode == InitCode /\ [][NextDecode]_vars

-----------------------------------------------------------------------------
(* The BCFLAT codeword table as the format states it: prefix bits, number  *)
(* of extension bits, number of samples and the range of the difference.   *)

T(pre, ext, nlo, nhi, dlo, dhi) ==
    [pre |-> pre, ext |-> ext, nlo |-> nlo, nhi |-> nhi, dlo |-> dlo, dhi |-> dhi]

CodeTable ==
    << T(<<0,0,0>>, 0, 2, 2, 0, 0),
       T(<<0,0,1,0>>, 0, 3, 3, 0, 0),
       T(<<0,0,1,1,0>>, 0, 4, 4, 0, 0),
       T(<<0,0,1,1,1>>, 2, 5, 8, 0, 0),
       T(<<0,1,0,0>>, 2, 2, 2, 1, 4),
       T(<<0,1,0,1>>, 2, 2, 2, -4, -1),
       T(<<0,1,1,0>>, 2, 3, 3, 1, 4),
       T(<<0,1,1,1>>, 2, 3, 3, -4, -1),
       T(<<1,0,0>>, 0, 1, 1, 0, 0),
       T(<<1,0,1,0>>, 0, 1, 1, 1, 1),
       T(<<1,0,1,1>>, 0, 1, 1, -1, -1),
       T(<<1,1,0,0,0>>, 1, 1, 1, 2, 3),
       T(<<1,1,0,0,1>>, 1, 1, 1, -3, -2),
       T(<<1,1,0,1,0>>, 2, 1, 1, 4, 7),
       T(<<1,1,0,1,1>>, 2, 1, 1, -7, -4),
       T(<<1,1,1,0,0,0,0>>, 3, 1, 1, 8, 15),
       T(<<1,1,1,0,0,0,1>>, 3, 1, 1, -15, -8),
       T(<<1,1,1,0,0,1,0>>, 4, 1, 1, 16, 31),
       T(<<1,1,1,0,0,1,1>>, 4, 1, 1, -31, -16),
       T(<<1,1,1,0,1,0,0>>, 5, 1, 1, 32, 63),
       T(<<1,1,1,0,1,0,1>>, 5, 1, 1, -63, -32),
       T(<<1,1,1,0,1,1,0>>, 6, 1, 1, 64, 127),
       T(<<1,1,1,0,1,1,1>>, 6, 1, 1, -127, -64),
       T(<<1,1,1,1,0,0,0>>, 0, 1, 1, 128, 128) >>

\* The table with the reserved 1111xxx patterns taken as 1111000
CodeTableReserved ==
    [CodeTable EXCEPT ![24] = T(<<1,1,1,1>>, 3, 1, 1, 128, 128)]

\* bit i (1 = first) of the 13 register bits recorded at a match
Bit13(bits, i) == (bits \div Pow2(13 - i)) % 2

HasPrefix(bits, pre) == \A i \in 1..Len(pre) : Bit13(bits, i) = pre[i]

Classes(tab, bits) == {k \in 1..Len(tab) : HasPrefix(bits, tab[k].pre)}

\* the decoder did what table entry e says, starting from last0
Follows(e, f) ==
    /\ f.ev.codelen = Len(e.pre) + e.ext
    /\ f.g_retired = f.ev.codelen
    /\ Len(f.uncomp_buf) \in e.nlo..e.nhi
    /\ f.num_pixels = Len(f.uncomp_buf)
    /\ \E d \in e.dlo..e.dhi :
         \A i \in 1..Len(f.uncomp_buf) :
            f.uncomp_buf[i] = (f.ev.last0 + i * d + 1024) % 256
    /\ f.last = f.uncomp_buf[Len(f.uncomp_buf)]

Decoded(tab) ==
    /\ pc # "aborted"
    /\ df.ev.kind = "retire" =>
         /\ Cardinality(Classes(tab, df.ev.bits)) = 1
         /\ \A k \in Classes(tab, df.ev.bits) : Follows(tab[k], df)

\* C10 as stated: every register content matches exactly one codeword of
\* the table and is decoded as the table says (samples, differences modulo
\* 256, retired length, final `last'); no assert(0) is reached.
C10_AsStated == Decoded(CodeTable)

\* C10 amended: the same, with every content that begins 1111 decoded as
\* 1111000 whatever its next three bits are.
C10_Table == Decoded(CodeTableReserved)

\* a reserved pattern 1111xxx (xxx # 000) was decoded as a difference of 128
C10_Witness ==
    /\ df.ev.kind = "retire"
    /\ Bit13(df.ev.bits, 1) = 1 /\ Bit13(df.ev.bits, 2) = 1
    /\ Bit13(df.ev.bits, 3) = 1 /\ Bit13(df.ev.bits, 4) = 1
    /\ Bit13(df.ev.bits, 6) = 1
    /\ df.uncomp_buf = <<(df.ev.last0 + 128) % 256>>

-----------------------------------------------------------------------------
(* One decode_flat call from any state a row can be in: up to seven bits   *)
(* carried in the register and a few bytes of input.                       *)

MaxComp == 2

MaxPixels == 3

ByteSet == {0, 63, 69, 128, 181, 224, 239, 255}

CarryBytes == {0, 229, 255}

DecodeLasts == {7, 250}

RECURSIVE SeqsUpTo(_, _)
SeqsUpTo(S, n) ==
    IF n = 0 THEN {<<>>}
    ELSE LET shorter == SeqsUpTo(S, n - 1)
         IN  shorter \cup {Append(q, b) : q \in {t \in shorter : Len(t) = n - 1}, b \in S}

InitDecode ==
    /\ pc = "df_loop"
    /\ \E comp_p \in SeqsUpTo(ByteSet, MaxComp) \ {<<>>},
          n \in 0..7, c \in CarryBytes, l \in DecodeLasts, m \in 1..MaxPixels :
         /\ state = [reg |-> CarryReg(c, n), reg_size |-> n, last |-> l]
         /\ df = DfEntry(comp_p, m, state)
         /\ comp_size = Len(comp_p)
         /\ num_pixels = m
    /\ pixel_buf = <<>>
    /\ NoFile
    /\ NoRow

SpecDecode == InitDecode /\ [][NextDecode]_vars

\* C8: a codeword is retired, and its samples emitted, only when its
\* length is at most the number of genuine input bits in the register; a
\* match that would need a pad bit ends the loop and emits nothing.
C8_NoPaddingInCodeword ==
    /\ df.ev.kind = "retire" =>
         /\ df.ev.codelen <= df.ev.genuine
         /\ df.num_pixels > df.ev.n0
    /\ df.ev.kind = "break" =>
         /\ df.ev.codelen > df.ev.genuine
         /\ df.num_pixels = df.ev.n0
         /\ Len(df.uncomp_buf) = df.ev.n0
         /\ pc \in {"df_tail", "df_ret"}

\* the register held both pad bytes and some genuine bits, too few for the
\* codeword they begin, and the call stopped
C8_Witness ==
    /\ df.ev.kind = "break"
    /\ df.padding_bits = 16
    /\ df.ev.genuine >= 1
    /\ df.ev.n0 >= 1
    /\ pc = "df_tail"

\* C21: in every decode_flat call with 1 <= comp_size <= FLATBUF and an
\* entry state of at most 7 bits, the read cursor never goes past the two
\* zero pad bytes: no byte at index comp_size + 2 or beyond of the padded
\* copy is read, whatever the input bits and max_pixels.
C21_WithinPad ==
    /\ ~df.oob
    /\ df.p <= df.comp_size + 2
    /\ df.padding_bits <= 16

\* both pad bytes were loaded, a codeword of genuine bits was retired after
\* that, and the loop ended at the second pad byte
C21_Witness ==
    /\ pc = "df_tail"
    /\ df.p = df.comp_size + 2
    /\ df.padding_bits = 16
    /\ df.ev.kind = "retire"
    /\ df.ev.genuine < 8

\* the bits of a sequence of bytes, first byte first
RECURSIVE BitsOf(_)
BitsOf(bytes) ==
    IF bytes = <<>> THEN <<>>
    ELSE SubSeq(ByteBits(Head(bytes)), 1, 8) \o BitsOf(Tail(bytes))

\* the input of the call as a string of bits: the bits the entry state
\* carried, then the comp_size bytes
StreamBits ==
    SubSeq(state.reg, 1, state.reg_size)
        \o BitsOf(SubSeq(df.comp_buf, 1, df.comp_size))

\* a call of decode_flat returns
Returning == pc = "df_tail" /\ pc' = "df_ret"

\* what the call leaves: fewer than 8 bits in the register, which are the
\* bits of the input behind the codewords retired, zeros in the rest of
\* the register, and a consumed count that covers the codewords retired
\* and the bits left and not a byte more
LeftOver ==
    Returning =>
        LET r == state'.reg_size
        IN  /\ r \in 0..7
            /\ comp_size' \in 0..comp_size
            /\ 8 * comp_size' + state.reg_size = df.g_retired + r
            /\ \A i \in 1..32 :
                  state'.reg[i] = IF i <= r THEN StreamBits[df.g_retired + i]
                                  ELSE 0

\* C22: after every decode_flat call the carried register holds fewer than
\* 8 bits, all of them genuine input bits, with the unused positions of
\* the register zero, and the consumed byte count is between 0 and
\* comp_size; whole bytes that were loaded but not used by a retired
\* codeword are given back, so that at the end of a row the first
\* unconsumed byte is the literal first byte of the next row.
C22_CarryAndUnget == [][LeftOver]_vars

\* a call has returned with bits left in the register, a byte given back
\* and samples decoded
C22_Witness ==
    /\ pc = "df_ret"
    /\ state.reg_size > 0
    /\ comp_size < df.comp_size
    /\ num_pixels > 0
    /\ df.padding_bits > 0

-----------------------------------------------------------------------------
(* Reading the file: magic numbers, flags, 64-bit fields                   *)

bcraw_magic == <<0, 66, 67, 82, 195, 132, 87, 10>>

bcprog_magic == <<66, 67, 80, 82, 195, 150, 71, 10>>

bcflat_magic == <<66, 67, 70, 76, 195, 132, 84, 10>>

\* fread(ptr, n, 1, fh): all n bytes or nothing; a short read leaves the
\* stream at its end
Fread1(f, pos, n) ==
    IF pos + n <= Len(f)
    THEN [ok |-> TRUE, bytes |-> SubSeq(f, pos + 1, pos + n), fpos |-> pos + n]
    ELSE [ok |-> FALSE, bytes |-> <<>>, fpos |-> Len(f)]

\* fread(ptr, 1, n, fh): as many of the n bytes as the stream still has
FreadN(f, pos, n) ==
    LET m == Min(n, Len(f) - pos)
    IN  [bytes |-> SubSeq(f, pos + 1, pos + m), fpos |-> pos + m]

\* read_u64_bigendian: bytes[7] is the low byte, bytes[0] the high one; a
\* short read sets format_problem and returns -1
read_u64_bigendian(f, pos, problem) ==
    LET r == Fread1(f, pos, 8)
    IN  IF ~r.ok
        THEN [val |-> AllOnes, fpos |-> r.fpos, problem |-> "short read of u64"]
        ELSE [val |-> [j \in 1..8 |-> r.bytes[9 - j]], fpos |-> r.fpos,
              problem |-> problem]

\* (int) of a 64-bit value: the low 32 bits, two's complement
ToInt32(a) ==
    LET low == a[1] + 256 * a[2] + 65536 * a[3] + 16777216 * (a[4] % 128)
    IN  IF a[4] >= 128 THEN low - 2147483647 - 1 ELSE low

\* int num_bytes = 3 * width * height
NumBytes(width, height) == ToInt32(Mul(Mul(U64(3), width, 8), height, 8))

-----------------------------------------------------------------------------
(* The block holding the pixels and the trailing image_info                *)

TRAILER_ALIGNMENT == 8

SizeofImageInfo == 48

\* the largest block the model keeps byte by byte
ModelMem == 400

\* the address malloc returned, as the 8 bytes of a pointer
BlockAddr == <<16, 32, 96, 85, 85, 85, 0, 0>>

\* offsets of the fields of struct image_info
OffWidth == 0
OffHeight == 8
OffCleanup == 16
OffMagic == 24
OffCreateTime == 32
OffPixels == 40

\* trailer_location: pad the end of the pixels up to the alignment (the
\* block itself is aligned)
trailer_location(pixel_bytes) ==
    LET extra == pixel_bytes % TRAILER_ALIGNMENT
        pad == (TRAILER_ALIGNMENT - extra) % TRAILER_ALIGNMENT
    IN  pixel_bytes + pad

\* store bytes at offset off of the block
Store(m, off, bytes) ==
    [i \in 1..Len(m) |-> IF i > off /\ i <= off + Len(bytes)
                         THEN bytes[i - off] ELSE m[i]]

\* the 8 bytes of a field of the trailer (x86-64: low byte first)
Load8(m, off) == [j \in 1..8 |-> m[off + j]]

FooterWidth == Load8(mem, trailer + OffWidth)
FooterHeight == Load8(mem, trailer + OffHeight)

\* xmalloc(num_bytes + TRAILER_ALIGNMENT + sizeof(struct image_info)) and
\* the five stores through info_footer.  A negative num_bytes makes the
\* size wrap: below -56 the request is near 2^64 and xmalloc exits; from
\* -56 to -1 the trailer lies before the block.
Allocate(num_bytes, width, height) ==
    LET size == num_bytes + TRAILER_ALIGNMENT + SizeofImageInfo
        t == trailer_location(num_bytes)
        fresh == [i \in 1..size |-> -1]
    IN  IF num_bytes < -(TRAILER_ALIGNMENT + SizeofImageInfo)
        THEN [kind |-> "exit", mem |-> <<>>, trailer |-> 0]
        ELSE IF num_bytes < 0
        THEN [kind |-> "undefined", mem |-> <<>>, trailer |-> 0]
        ELSE IF num_bytes > ModelMem
        THEN [kind |-> "large", mem |-> <<>>, trailer |-> 0]
        ELSE [kind |-> "live", trailer |-> t,
              mem |-> Store(Store(Store(Store(Store(fresh,
                        t + OffWidth, width),
                        t + OffHeight, height),
                        t + OffPixels, BlockAddr),
                        t + OffCreateTime, AllOnes),
                        t + OffCleanup, U64(0))]

-----------------------------------------------------------------------------
(* parse_image and the format headers                                      *)

\* parse_image lines 456-486: read the magic number, reset format_problem,
\* dispatch.  (The decoder's own work is the actions that follow.)
ParseImage ==
    /\ pc = "opened"
    /\ LET r == Fread1(file, fpos, 8)
       IN  /\ fpos' = r.fpos
           /\ IF ~r.ok
              THEN /\ pc' = "ret_null"
                   /\ diag' = <<"Failed to read magic number">>
                   /\ UNCHANGED <<format_problem, fmt>>
              ELSE /\ format_problem' = "null"
                   /\ fmt' = IF r.bytes = bcraw_magic THEN "bcraw"
                             ELSE IF r.bytes = bcprog_magic THEN "bcprog"
                             ELSE IF r.bytes = bcflat_magic THEN "bcflat"
                             ELSE "none"
                   /\ pc' = IF fmt' = "none" THEN "ret_null" ELSE fmt'
                   /\ diag' = IF fmt' = "none" THEN <<"unrecognized format">>
                              ELSE <<>>
    /\ UNCHANGED <<file, logging_fmt, size_limit, heap, mem, trailer, info, hdr,
                   given, feed, logVars, zooVars>>
    /\ UNCHANGED <<rowVars, df, callVars>>

\* the two dimensions: read_u64_bigendian twice, each compared with -1
ReadDims(f, pos, problem) ==
    LET w == read_u64_bigendian(f, pos, problem)
        h == read_u64_bigendian(f, w.fpos, w.problem)
    IN  IF w.val = AllOnes
        THEN [ok |-> FALSE, problem |-> w.problem, fpos |-> w.fpos,
              width |-> w.val, height |-> U64(0)]
        ELSE [ok |-> h.val # AllOnes, problem |-> h.problem, fpos |-> h.fpos,
              width |-> w.val, height |-> h.val]

HdrFail(problem, pos) ==
    [ok |-> FALSE, problem |-> problem, fpos |-> pos,
     width |-> U64(0), height |-> U64(0)]

\* parse_bcflat lines 383-418: flags, dimensions, size checks
FlatHeader(f, pos, problem, limit) ==
    LET fl == Fread1(f, pos, 8)
        flags == fl.bytes
        d == ReadDims(f, fl.fpos, problem)
    IN  IF ~fl.ok THEN HdrFail(problem, fl.fpos)
        ELSE IF \E i \in 1..6 : flags[i] # 0
        THEN HdrFail("reserved flags should be 0", fl.fpos)
        ELSE IF flags[7] # 13
        THEN HdrFail("unsupported dictionary size", fl.fpos)
        ELSE IF flags[8] # 3
        THEN HdrFail("unsupported number of channels", fl.fpos)
        ELSE IF ~d.ok THEN d
        ELSE IF LessS(d.height, U64(1)) \/ LessS(d.width, U64(1))
        THEN [d EXCEPT !.ok = FALSE, !.problem = "size must be positive"]
        ELSE IF LessS(limit, d.height) \/ LessS(limit, d.width)
        THEN [d EXCEPT !.ok = FALSE,
                       !.problem = "size too large compared to stack"]
        ELSE d

\* After an accepted header: lines 420-428 (and the same lines of the other
\* two decoders).  Next comes process_tagged_data.
AllocateFor(h) ==
    LET nb == NumBytes(h.width, h.height)
        a == Allocate(nb, h.width, h.height)
    IN  /\ hdr' = [width |-> h.width, height |-> h.height, num_bytes |-> nb]
        /\ format_problem' = h.problem
        /\ fpos' = h.fpos
        /\ mem' = a.mem
        /\ trailer' = a.trailer
        /\ heap' = IF a.kind \in {"live", "large"} THEN "live" ELSE "none"
        /\ pc' = IF a.kind = "live" THEN "tags" ELSE a.kind
        /\ diag' = diag

\* parse_image lines 490-496: the message for a null result
InvalidFormat(problem) ==
    IF problem # "null" THEN <<"invalid format", problem>>
    ELSE <<"invalid format">>

\* a header that was refused: the decoder returns 0 and so does parse_image
Refuse(h) ==
    /\ format_problem' = h.problem
    /\ fpos' = h.fpos
    /\ pc' = "ret_null"
    /\ diag' = InvalidFormat(h.problem)
    /\ UNCHANGED <<heap, mem, trailer, hdr>>

ParseBcflat ==
    /\ pc = "bcflat"
    /\ LET h == FlatHeader(file, fpos, format_problem, size_limit)
       IN  IF h.ok THEN AllocateFor(h) ELSE Refuse(h)
    /\ UNCHANGED <<file, logging_fmt, size_limit, fmt, info, given, feed, logVars, zooVars>>
    /\ UNCHANGED <<rowVars, df, callVars>>

-----------------------------------------------------------------------------
(* process_tagged_data                                                     *)

TagDATA == <<68, 65, 84, 65>>
TagTIME == <<84, 73, 77, 69>>
TagFRMT == <<70, 82, 77, 84>>

\* The loop of process_tagged_data from stream position pos: t is what the
\* call has changed so far (the trailer's create_time, logging_fmt,
\* format_problem).
RECURSIVE TagLoop(_, _, _)
TagLoop(f, pos, t) ==
    LET id == Fread1(f, pos, 4)
        sz == read_u64_bigendian(f, id.fpos, t.problem)
        size == sz.val
        tm == read_u64_bigendian(f, sz.fpos, sz.problem)
        avail == Len(f) - sz.fpos
    IN  IF ~id.ok
        THEN [t EXCEPT !.ok = FALSE, !.problem = "short read of tag", !.fpos = id.fpos]
        ELSE IF id.bytes = TagDATA
        THEN [t EXCEPT !.ok = TRUE, !.fpos = id.fpos]
        ELSE IF size = AllOnes
        THEN [t EXCEPT !.ok = FALSE, !.problem = sz.problem, !.fpos = sz.fpos]
        ELSE IF LessU(PowLimb(40), size)
        THEN [t EXCEPT !.ok = FALSE, !.problem = "tag too large", !.fpos = sz.fpos]
        ELSE IF id.bytes = TagTIME
        THEN IF size # U64(8)
             THEN [t EXCEPT !.ok = FALSE, !.problem = "wrong size for TIME",
                            !.fpos = sz.fpos]
             ELSE TagLoop(f, tm.fpos, [t EXCEPT !.create_time = tm.val,
                                                !.problem = tm.problem])
        ELSE IF id.bytes = TagFRMT
        THEN IF LessU(U64(avail), size)
             THEN [t EXCEPT !.ok = FALSE, !.problem = "short read of format",
                            !.fpos = Len(f), !.leaked = @ + 1]
             ELSE LET n == ToInt(Resize(size, 4))
                      r == FreadN(f, sz.fpos, n)
                  IN  TagLoop(f, r.fpos,
                              [t EXCEPT !.problem = sz.problem,
                                        !.logging_fmt = [origin |-> "file",
                                                         text |-> r.bytes]])
        ELSE [t EXCEPT !.ok = FALSE, !.problem = "unrecognized tag", !.fpos = sz.fpos]

process_tagged_data(f, pos, problem, lfmt, ctime) ==
    TagLoop(f, pos, [ok |-> TRUE, problem |-> problem, fpos |-> pos,
                     logging_fmt |-> lfmt, create_time |-> ctime, leaked |-> 0])

\* is_ok = process_tagged_data(fh, info_footer); if (!is_ok) { free(pixels);
\* return 0; } -- and on success the decoder goes on to its pixel data
ProcessTags ==
    /\ pc = "tags"
    /\ LET t == process_tagged_data(file, fpos, format_problem, logging_fmt,
                                    Load8(mem, trailer + OffCreateTime))
       IN  /\ fpos' = t.fpos
           /\ format_problem' = t.problem
           /\ logging_fmt' = t.logging_fmt
           /\ mem' = Store(mem, trailer + OffCreateTime, t.create_time)
           /\ heap' = IF t.ok THEN heap ELSE "freed"
           /\ pc' = IF t.ok THEN "data" ELSE "ret_null"
           /\ diag' = IF t.ok THEN diag ELSE InvalidFormat(t.problem)
    /\ UNCHANGED <<file, size_limit, fmt, trailer, info, hdr, given, feed, logVars, zooVars>>
    /\ UNCHANGED <<rowVars, df, callVars>>

-----------------------------------------------------------------------------
(* read_flat_data                                                          *)

\* read_flat_data returned 0: parse_bcflat frees the pixels and returns 0,
\* parse_image reports the file
FlatFail(problem) ==
    /\ format_problem' = problem
    /\ heap' = "freed"
    /\ pc' = "ret_null"
    /\ diag' = InvalidFormat(problem)

\* the loop headers of lines 294, 295 and 319 after column xx of row yy of
\* channel ch: more of the row, the next row, the next channel, or done
FlatGoOn(ch, yy, xx) ==
    LET w == ToInt(Resize(FooterWidth, 4))
        h == ToInt(Resize(FooterHeight, 4))
    IN  IF xx < w THEN [pc |-> "rf_fill", channel |-> ch, y |-> yy]
        ELSE IF yy + 1 < h THEN [pc |-> "rf_row", channel |-> ch, y |-> yy + 1]
        ELSE IF ch + 1 <= 2 /\ 0 < h
        THEN [pc |-> "rf_row", channel |-> ch + 1, y |-> 0]
        ELSE [pc |-> "copy", channel |-> ch, y |-> yy]

\* RowIndex with the samples of a row next to each other
RowIndex_packed(row_p, xx, ch) == row_p + xx + ch

\* row[3*x + channel], row being info->pixels + 3 * y * info->width
RowIndex(row_p, xx, ch) == row_p + 3 * xx + ch

\* the last of the columns cs, the one whose store is the one that stays
LastCol(cs) == CHOOSE c \in cs : \A d \in cs : d <= c

\* entry of read_flat_data (lines 288-295)
FlatEnter ==
    /\ pc = "data"
    /\ UNCHANGED progVars
    /\ fmt = "bcflat"
    /\ channel' = 0
    /\ y' = 0
    /\ x' = 0
    /\ buf' = <<>>
    /\ buf_read_pos' = 0
    /\ after' = [kind |-> "none"]
    /\ pc' = IF 0 < ToInt(Resize(FooterHeight, 4)) THEN "rf_row" ELSE "copy"
    /\ UNCHANGED <<parseVars, df, callVars>>

\* the start of a row (lines 296-318): its first sample is a literal byte
FlatRow ==
    /\ pc = "rf_row"
    /\ UNCHANGED progVars
    /\ LET w == ToInt(Resize(FooterWidth, 4))
           row_p == 3 * y * w
           r == Fread1(file, fpos, 1)
           first == IF buf_read_pos > 0 THEN buf[1] ELSE r.bytes[1]
           go == FlatGoOn(channel, y, 1)
       IN  IF buf_read_pos = 0 /\ ~r.ok
           THEN /\ FlatFail("failed to read first byte")
                /\ fpos' = r.fpos
                /\ UNCHANGED <<mem, rowVars, state>>
           ELSE /\ buf' = IF buf_read_pos > 0 THEN Tail(buf) ELSE buf
                /\ buf_read_pos' = IF buf_read_pos > 0 THEN buf_read_pos - 1
                                   ELSE buf_read_pos
                /\ fpos' = IF buf_read_pos > 0 THEN fpos ELSE r.fpos
                /\ mem' = Store(mem, RowIndex(row_p, 0, channel), <<first>>)
                /\ x' = 1
                /\ state' = [reg |-> Zero32, reg_size |-> 0, last |-> first]
                /\ pc' = go.pc
                /\ channel' = go.channel
                /\ y' = go.y
                /\ after' = [kind |-> "first", channel |-> channel, y |-> y,
                              at |-> <<RowIndex(row_p, 0, channel)>>]
                /\ UNCHANGED <<format_problem, heap, diag>>
    /\ UNCHANGED <<file, logging_fmt, size_limit, fmt, trailer, info, hdr, given,
                   feed, logVars, zooVars>>
    /\ UNCHANGED <<df, comp_size, num_pixels, pixel_buf>>

\* lines 322-342: top the buffer up from the file and call decode_flat
FlatFill ==
    /\ pc = "rf_fill"
    /\ UNCHANGED progVars
    /\ LET max_pixels == ToInt(Resize(FooterWidth, 4)) - x
           r == FreadN(file, fpos, FLATBUF - buf_read_pos)
           filled == IF buf_read_pos < FLATBUF THEN buf \o r.bytes ELSE buf
       IN  /\ fpos' = IF buf_read_pos < FLATBUF THEN r.fpos ELSE fpos
           /\ buf' = filled
           /\ buf_read_pos' = Len(filled)
           /\ IF Len(filled) = 0
              THEN /\ FlatFail("too little data")
                   /\ UNCHANGED <<df, callVars>>
              ELSE /\ CallDecode(filled, max_pixels, state)
                   /\ UNCHANGED <<format_problem, heap, diag, pixel_buf>>
    /\ UNCHANGED <<file, logging_fmt, size_limit, fmt, mem, trailer, info, hdr,
                   given, feed, logVars, zooVars>>
    /\ UNCHANGED <<channel, y, x, after>>

\* OvershootRow accepting what the assertion before it accepts
OvershootRow_lax(n, max_pixels) == n > max_pixels + EXPANSION

\* if (num_pixels > max_pixels)
OvershootRow(n, max_pixels) == n > max_pixels

\* lines 343-362: check what decode_flat returned, store the samples in
\* every third byte of the row, move the unconsumed bytes down
FlatAfter ==
    /\ pc = "df_ret"
    /\ UNCHANGED progVars
    /\ LET w == ToInt(Resize(FooterWidth, 4))
           max_pixels == w - x
           row_p == 3 * y * w
           cols == {x + i - 1 : i \in 1..num_pixels}
           go == FlatGoOn(channel, y, x + num_pixels)
           done == [kind |-> "call", num_pixels |-> num_pixels,
                    max_pixels |-> max_pixels, width |-> w,
                    channel |-> channel, y |-> y,
                    at |-> [i \in 1..num_pixels |->
                              RowIndex(row_p, x + i - 1, channel)]]
       IN  IF num_pixels <= 0 \/ num_pixels > max_pixels + EXPANSION
           THEN /\ pc' = "aborted"
                /\ after' = [done EXCEPT !.kind = "assert"]
                /\ UNCHANGED <<format_problem, heap, diag, mem, channel, y, x,
                               buf, buf_read_pos>>
           ELSE IF OvershootRow(num_pixels, max_pixels)
           THEN /\ FlatFail("excess pixels at end of row")
                /\ after' = [done EXCEPT !.kind = "excess"]
                /\ UNCHANGED <<mem, channel, y, x, buf, buf_read_pos>>
           ELSE IF \E c \in cols : c >= w
           THEN /\ pc' = "aborted"
                /\ after' = [done EXCEPT !.kind = "assert"]
                /\ UNCHANGED <<format_problem, heap, diag, mem, channel, y, x,
                               buf, buf_read_pos>>
           ELSE /\ mem' = [i \in 1..Len(mem) |->
                             LET cs == {c \in cols :
                                          i = RowIndex(row_p, c, channel) + 1}
                             IN  IF cs # {} THEN pixel_buf[LastCol(cs) - x + 1]
                                 ELSE mem[i]]
                /\ x' = x + num_pixels
                /\ buf' = SubSeq(buf, comp_size + 1, buf_read_pos)
                /\ buf_read_pos' = buf_read_pos - comp_size
                /\ pc' = go.pc
                /\ channel' = go.channel
                /\ y' = go.y
                /\ after' = [done EXCEPT !.kind = "stored"]
                /\ UNCHANGED <<format_problem, heap, diag>>
    /\ UNCHANGED <<file, fpos, logging_fmt, size_limit, fmt, trailer, info, hdr,
                   given, feed, logVars, zooVars>>
    /\ UNCHANGED <<df, callVars>>

\* the decoder copies the trailer into a new image_info and returns it
\* (parse_bcflat lines 441-448), parse_image returns it
ReturnInfo ==
    /\ pc = "copy"
    /\ info' = [width |-> Load8(mem, trailer + OffWidth),
                height |-> Load8(mem, trailer + OffHeight),
                create_time |-> Load8(mem, trailer + OffCreateTime),
                pixels |-> Load8(mem, trailer + OffPixels),
                cleanup |-> Load8(mem, trailer + OffCleanup)]
    /\ pc' = "ret_info"
    /\ UNCHANGED <<file, fpos, format_problem, logging_fmt, size_limit, fmt,
                   heap, mem, trailer, hdr, diag, given, feed, logVars, zooVars>>
    /\ UNCHANGED <<rowVars, df, callVars>>

-----------------------------------------------------------------------------
(* read_raw_data                                                           *)

\* a - 8 in 64 bits
Minus8(a) == AddLimb(a, <<248, 255, 255, 255, 255, 255, 255, 255>>)

\* The loop tests of read_raw_data (lines 138, 139, 150) from one of them
\* on, with the width and height the trailer holds now: "row" is the test
\* of the outer loop before row rw, "group" the test of the loop of groups
\* of 8 pixels at column cl, "single" the test of the loop of single pixels.
\* The result is the next fread, or the return.  Rows without pixels are
\* passed over at once.
RawGoOn(test, rw, cl, width, height) ==
    LET group(r, c) == [pc |-> "rw_group", row |-> r, col |-> c]
        single(r, c) == [pc |-> "rw_single", row |-> r, col |-> c]
        done(r, c) == [pc |-> "copy", row |-> r, col |-> c]
        nextRow == IF ~LessS(U64(rw + 1), height) THEN done(rw + 1, cl)
                   ELSE IF LessS(U64(0), Minus8(width)) THEN group(rw + 1, 0)
                   ELSE IF LessS(U64(0), width) THEN single(rw + 1, 0)
                   ELSE done(rw + 1, 0)
    IN  IF test = "row" /\ ~LessS(U64(rw), height) THEN done(rw, cl)
        ELSE IF test = "row" /\ LessS(U64(0), Minus8(width)) THEN group(rw, 0)
        ELSE IF test = "row" /\ LessS(U64(0), width) THEN single(rw, 0)
        ELSE IF test = "row" THEN done(rw, 0)
        ELSE IF test = "group" /\ LessS(U64(cl), Minus8(width)) THEN group(rw, cl)
        ELSE IF LessS(U64(cl), width) THEN single(rw, cl)
        ELSE nextRow

\* entry of read_raw_data (lines 133-138)
RawEnter ==
    /\ pc = "data"
    /\ fmt = "bcraw"
    /\ LET go == RawGoOn("row", 0, 0, FooterWidth, FooterHeight)
       IN  /\ pc' = go.pc
           /\ row' = go.row
           /\ col' = go.col
    /\ p' = 0
    /\ UNCHANGED <<parseVars, channel, y, x, buf, buf_read_pos, after, pass,
                   written, df, callVars>>

\* fread(p, 3, 8, fh) of the first inner loop (lines 139-146) or
\* fread(p, 3, 1, fh) of the second (lines 150-157): the bytes the stream
\* gives are stored at p, a store past the end of the block is undefined,
\* fewer than asked for make the decoder fail.  A stream that goes on
\* beyond the bytes the model holds is not followed past them.
RawRead ==
    /\ pc \in {"rw_group", "rw_single"}
    /\ LET pixels == IF pc = "rw_group" THEN 8 ELSE 1
           got == FreadN(file, fpos, 3 * pixels)
           stored == Store(mem, p, got.bytes)
           go == RawGoOn(IF pc = "rw_group" THEN "group" ELSE "single", row,
                         col + pixels, Load8(stored, trailer + OffWidth),
                         Load8(stored, trailer + OffHeight))
       IN  IF Len(got.bytes) > 0 /\ p + Len(got.bytes) > Len(mem)
           THEN /\ pc' = "undefined"
                /\ UNCHANGED <<fpos, mem, format_problem, heap, diag, row, col, p>>
           ELSE IF Len(got.bytes) < 3 * pixels /\ given.endless
           THEN /\ pc' = "large"
                /\ UNCHANGED <<fpos, mem, format_problem, heap, diag, row, col, p>>
           ELSE IF Len(got.bytes) < 3 * pixels
           THEN /\ FlatFail("short read of raw data")
                /\ fpos' = got.fpos
                /\ mem' = stored
                /\ UNCHANGED <<row, col, p>>
           ELSE /\ fpos' = got.fpos
                /\ mem' = stored
                /\ p' = p + 3 * pixels
                /\ pc' = go.pc
                /\ row' = go.row
                /\ col' = go.col
                /\ UNCHANGED <<format_problem, heap, diag>>
    /\ UNCHANGED <<file, logging_fmt, size_limit, fmt, trailer, info, hdr, given,
                   feed, logVars, zooVars>>
    /\ UNCHANGED <<channel, y, x, buf, buf_read_pos, after, pass, written, df,
                   callVars>>

-----------------------------------------------------------------------------
(* BCFLAT files, whole and cut short                                       *)

\* the eight bytes read_u64_bigendian turns into n
BigEndian(n) == [j \in 1..8 |-> U64(n)[9 - j]]

\* a BCFLAT file: magic, flags (13-bit dictionary, 3 channels), width,
\* height, tags, the DATA tag, the coded rows
FlatFile(w, h, tags, rows) ==
    bcflat_magic \o <<0, 0, 0, 0, 0, 0, 13, 3>> \o BigEndian(w)
        \o BigEndian(h) \o tags \o TagDATA \o rows

RECURSIVE Times(_, _)
Times(s, n) == IF n = 0 THEN <<>> ELSE s \o Times(s, n - 1)

\* files whose rows decode to exactly width samples each
\*   2x1  literal, 1110000 000 (one sample, base +8)
\*   3x2  literal, 000 (a run of two zeros)
\*   4x1  literal, 010001 (two samples), 100 (one sample)
\*   1x2  literal only
ValidFlat ==
    { FlatFile(2, 1, <<>>, Times(<<10, 224, 0>>, 3)),
      FlatFile(3, 2, <<>>, Times(<<7, 0>>, 6)),
      FlatFile(4, 1, <<>>, Times(<<200, 70, 0>>, 3)),
      FlatFile(1, 2, <<>>, Times(<<9>>, 6)) }

\* files with a row whose last codeword runs past the width
\*   2x1  literal, 000          (2 samples, 1 column left)
\*   2x1  literal, 0011111      (8 samples, 1 column left)
\*   4x1  literal, 000, 0011111 (8 samples, 1 column left)
\*   3x1  literal, 100, 0011100 (5 samples, 1 column left)
ExcessFlat ==
    { FlatFile(2, 1, <<>>, Times(<<10, 0>>, 3)),
      FlatFile(2, 1, <<>>, Times(<<10, 62>>, 3)),
      FlatFile(4, 1, <<>>, Times(<<10, 7, 192>>, 3)),
      FlatFile(3, 1, <<>>, Times(<<10, 135, 0>>, 3)) }

Prefixes(f) == {SubSeq(f, 1, k) : k \in 0..Len(f)}

\* parse_image is about to be called on a BCFLAT file, or on the first
\* bytes of one
InitFlat ==
    /\ pc = "opened"
    /\ \E f \in ValidFlat \cup ExcessFlat :
         /\ file \in Prefixes(f)
         /\ given = [valid |-> f \in ValidFlat, full |-> f, endless |-> FALSE]
    /\ feed = NoFeed
    /\ NoLog
    /\ NoZoo
    /\ fpos = 0
    /\ format_problem = "null"
    /\ logging_fmt = [origin |-> "static", text |-> DefaultFmt]
    /\ size_limit = U64(26754)
    /\ fmt = "none"
    /\ heap = "none"
    /\ mem = <<>>
    /\ trailer = 0
    /\ info = "null"
    /\ hdr = NoHdr
    /\ diag = <<>>
    /\ NoRow
    /\ df = DfEntry(<<0>>, 1, [reg |-> Zero32, reg_size |-> 0, last |-> 0])
    /\ state = [reg |-> Zero32, reg_size |-> 0, last |-> 0]
    /\ comp_size = 0
    /\ num_pixels = 0
    /\ pixel_buf = <<>>

NextFlat ==
    \/ ParseImage
    \/ ParseBcflat
    \/ ProcessTags
    \/ FlatEnter
    \/ FlatRow
    \/ FlatFill
    \/ DecodeLoop
    \/ DecodeTail
    \/ FlatAfter
    \/ ReturnInfo

SpecFlat == InitFlat /\ [][NextFlat]_vars

-----------------------------------------------------------------------------
(* C1, C9: read_flat_data on whole and truncated files                     *)

\* the file is the first k bytes of a valid file, k below its length
Truncated == given.valid /\ file # given.full

\* C1: parse_image on the first k bytes of a valid file (k below the file's
\* length) returns null with an error reported; it never stops in a failed
\* assertion and never returns an image.
C1_TruncatedFails ==
    Truncated =>
        /\ pc # "aborted"
        /\ pc # "ret_info"
        /\ pc = "ret_null" => diag # <<>>

\* the width read_flat_data reads from the trailer
RowWidth == ToInt(Resize(FooterWidth, 4))

\* the raster offsets a step changes
Written == {i \in 0..(Len(mem) - 1) : mem'[i + 1] # mem[i + 1]}

\* an overshooting call is refused and leaves the raster alone
RefusedStep ==
    (pc = "df_ret" /\ num_pixels > RowWidth - x) =>
        /\ pc' = "ret_null"
        /\ format_problem' = "excess pixels at end of row"
        /\ mem' = mem

\* what read_flat_data writes lands in row y, at a column below width
InRowStep ==
    pc \in {"rf_row", "df_ret"} =>
        \A i \in Written :
            /\ 3 * y * RowWidth <= i
            /\ i < 3 * (y + 1) * RowWidth
            /\ (i - 3 * y * RowWidth) \div 3 < RowWidth

\* C9: a decode_flat call that returns more samples than the row has left
\* (num_pixels > width - x) makes read_flat_data fail with "excess pixels at
\* end of row" with the raster unchanged; after every call num_pixels is at
\* most max_pixels + 8; every raster write of read_flat_data lands in the
\* current row, at a column below width.
C9_RowOverflow ==
    /\ [](pc = "df_ret" => num_pixels <= RowWidth - x + EXPANSION)
    /\ [][RefusedStep]_vars
    /\ [][InRowStep]_vars

\* a call returned 8 samples with one column left and was refused
C9_Witness ==
    /\ pc = "ret_null"
    /\ after.kind = "excess"
    /\ after.num_pixels = after.max_pixels + 7
    /\ format_problem = "excess pixels at end of row"

-----------------------------------------------------------------------------
(* decode_flat as one step, and a row fed to it in pieces                  *)

\* the loop of lines 110-243 run until it stops
RECURSIVE DfRun(_)
DfRun(f) ==
    IF ~DfCond(f) THEN f
    ELSE LET g == DfIter(f, 0)
         IN  IF g.brk \/ g.aborted \/ g.smash \/ g.oob THEN g ELSE DfRun(g)

\* decode_flat(comp_p, &comp_size, pixel_buf, &num_pixels, &state)
decode_flat(comp_p, max_pixels, st) ==
    LET f == DfRun(DfEntry(comp_p, max_pixels, st))
        r == DfTail(f)
    IN  [aborted |-> f.aborted \/ r.aborted, undefined |-> f.smash \/ f.oob,
         comp_size |-> r.comp_size, num_pixels |-> r.num_pixels,
         pixel_buf |-> r.pixel_buf, state |-> r.state]

\* The row fed as read_flat_data feeds it (lines 319-362): every call gets
\* all the bytes not yet consumed, up to FLATBUF of them, and asks for the
\* columns still missing.  a is what has come out so far.
RECURSIVE FeedWhole(_, _, _, _)
FeedWhole(bytes, width, st, a) ==
    LET rest == SubSeq(bytes, a.consumed + 1, Len(bytes))
        window == SubSeq(rest, 1, Min(FLATBUF, Len(rest)))
        r == decode_flat(window, width - Len(a.out), st)
    IN  IF Len(a.out) >= width \/ window = <<>>
        THEN [out |-> a.out, consumed |-> a.consumed, last |-> st.last,
              defined |-> TRUE]
        ELSE IF r.aborted \/ r.undefined
        THEN [out |-> a.out, consumed |-> a.consumed, last |-> st.last,
              defined |-> FALSE]
        ELSE IF r.num_pixels = 0 /\ r.comp_size = 0
        THEN [out |-> a.out, consumed |-> a.consumed, last |-> r.state.last,
              defined |-> TRUE]
        ELSE FeedWhole(bytes, width, r.state,
                       [out |-> a.out \o r.pixel_buf,
                        consumed |-> a.consumed + r.comp_size])

\* One more piece: k new bytes behind the bytes the last call left
\* unconsumed, then decode_flat on the window (lines 322-342 with a refill
\* of any size).  A call that got nowhere is followed by new bytes.
ChunkFeed ==
    /\ pc = "ck_feed"
    /\ UNCHANGED progVars
    /\ \E k \in 0..Min(FLATBUF - buf_read_pos, Len(file) - fpos) :
         LET window == buf \o SubSeq(file, fpos + 1, fpos + k)
         IN  /\ k >= 1 \/ feed.progress
             /\ window # <<>>
             /\ fpos' = fpos + k
             /\ buf' = window
             /\ buf_read_pos' = Len(window)
             /\ CallDecode(window, feed.width - x, state)
    /\ UNCHANGED <<file, format_problem, logging_fmt, size_limit, fmt, heap, mem,
                   trailer, info, hdr, diag, given, feed, logVars, zooVars>>
    /\ UNCHANGED <<channel, y, x, after, pixel_buf>>

\* The samples of the call join the output and the consumed bytes leave
\* the window (lines 349-362).  The feeding ends when the row is full, or
\* when every byte has been presented and the call got nowhere.
ChunkAfter ==
    /\ pc = "df_ret"
    /\ UNCHANGED progVars
    /\ feed' = [feed EXCEPT !.out = @ \o pixel_buf,
                            !.consumed = @ + comp_size,
                            !.progress = num_pixels > 0 \/ comp_size > 0,
                            !.calls = @ + 1,
                            !.stops = IF df.brk THEN @ + 1 ELSE @]
    /\ x' = x + num_pixels
    /\ buf' = SubSeq(buf, comp_size + 1, buf_read_pos)
    /\ buf_read_pos' = buf_read_pos - comp_size
    /\ pc' = IF x' >= feed.width THEN "ck_done"
             ELSE IF fpos = Len(file) /\ (~feed'.progress \/ buf' = <<>>)
             THEN "ck_done"
             ELSE "ck_feed"
    /\ UNCHANGED <<file, fpos, format_problem, logging_fmt, size_limit, fmt, heap,
                   mem, trailer, info, hdr, diag, given, logVars, zooVars>>
    /\ UNCHANGED <<channel, y, after, df, callVars>>

MaxRow == 3

\* bytes that start or continue codewords of every class: runs of zeros
\* (000, 0011111), repeated differences (010001), single differences of
\* 3, 7, 10 and 13 bits
ChunkBytes == {0, 62, 70, 181, 224, 255}

ChunkWidths == {2, 5, 10}

\* the coded part of a row, the literal first sample already taken
InitChunk ==
    /\ pc = "ck_feed"
    /\ file \in SeqsUpTo(ChunkBytes, MaxRow) \ {<<>>}
    /\ fpos = 0
    /\ format_problem = "null"
    /\ logging_fmt = [origin |-> "static", text |-> DefaultFmt]
    /\ size_limit = U64(26754)
    /\ fmt = "bcflat"
    /\ heap = "none"
    /\ mem = <<>>
    /\ trailer = 0
    /\ info = "null"
    /\ hdr = NoHdr
    /\ diag = <<>>
    /\ given = [valid |-> FALSE, full |-> file, endless |-> FALSE]
    /\ NoLog
    /\ NoZoo
    /\ \E w \in ChunkWidths, l \in DecodeLasts :
         /\ feed = [NoFeed EXCEPT !.width = w, !.first = l]
         /\ state = [reg |-> Zero32, reg_size |-> 0, last |-> l]
    /\ NoRow
    /\ df = DfEntry(<<0>>, 1, state)
    /\ comp_size = 0
    /\ num_pixels = 0
    /\ pixel_buf = <<>>

NextChunk == ChunkFeed \/ DecodeLoop \/ DecodeTail \/ ChunkAfter

SpecChunk == InitChunk /\ [][NextChunk]_vars

\* the row fed whole from the same start
Whole ==
    FeedWhole(file, feed.width,
              [reg |-> Zero32, reg_size |-> 0, last |-> feed.first],
              [out |-> <<>>, consumed |-> 0])

IsPrefix(s, t) == Len(s) <= Len(t) /\ s = SubSeq(t, 1, Len(s))

\* C7: however the coded bytes of a row are cut into pieces for decode_flat
\* (state carried, unconsumed bytes presented again), the samples, the
\* final last value and the number of bytes consumed are those of feeding
\* the row whole; on the way the samples are a prefix of them.
C7_ChunkingIndependent ==
    pc \in {"ck_feed", "ck_done"} =>
        /\ Whole.defined
        /\ IsPrefix(feed.out, Whole.out)
        /\ feed.consumed <= Whole.consumed
        /\ pc = "ck_done" =>
              /\ feed.out = Whole.out
              /\ state.last = Whole.last
              /\ feed.consumed = Whole.consumed

\* a row fed in at least three pieces, one of which ended inside a codeword,
\* has produced all its samples
C7_Witness ==
    /\ pc = "ck_done"
    /\ feed.calls >= 3
    /\ feed.stops >= 1
    /\ Len(feed.out) >= feed.width
    /\ feed.width >= 2
    /\ feed.consumed = Len(file)

-----------------------------------------------------------------------------
(* parse_bcprog and read_prog_data                                         *)

\* parse_bcprog lines 334-367: flags, width, height and the size checks
ProgHeader(f, pos, problem) ==
    LET fl == Fread1(f, pos, 8)
        flags == fl.bytes
        d == ReadDims(f, fl.fpos, problem)
    IN  IF ~fl.ok THEN HdrFail(problem, fl.fpos)
        ELSE IF \E i \in 1..6 : flags[i] # 0
        THEN HdrFail("reserved flags should be 0", fl.fpos)
        ELSE IF flags[7] # 1
        THEN HdrFail("unsupported passes number", fl.fpos)
        ELSE IF flags[8] # 216
        THEN HdrFail("unsupported color depth", fl.fpos)
        ELSE IF ~d.ok THEN d
        ELSE IF LessS(d.height, U64(2)) \/ LessS(d.width, U64(1))
        THEN [d EXCEPT !.ok = FALSE, !.problem = "size too small"]
        ELSE IF LessS(U64(600), d.height) \/ LessS(U64(800), d.width)
        THEN [d EXCEPT !.ok = FALSE, !.problem = "size too large"]
        ELSE d

ParseBcprog ==
    /\ pc = "bcprog"
    /\ LET h == ProgHeader(file, fpos, format_problem)
       IN  IF h.ok THEN AllocateFor(h) ELSE Refuse(h)
    /\ UNCHANGED <<file, logging_fmt, size_limit, fmt, info, given, feed, logVars, zooVars>>
    /\ UNCHANGED <<rowVars, df, callVars>>

\* entry of read_prog_data (lines 253-260)
ProgEnter ==
    /\ pc = "data"
    /\ UNCHANGED rawVars
    /\ fmt = "bcprog"
    /\ pass' = 1
    /\ row' = 0
    /\ written' = <<>>
    /\ pc' = "pg_row"
    /\ UNCHANGED <<parseVars, channel, y, x, buf, buf_read_pos, after, df,
                   callVars>>

\* where the pass goes after a row, the height read from the trailer as it
\* is after the row was stored: the do-while tests after the body
ProgGoOn(ps, rw, height) ==
    LET nxt == rw + (IF ps = 3 THEN 2 ELSE 4)
        more == IF IsNeg(height) THEN FALSE
                ELSE ~FitsInt(height) \/ nxt < ToInt(height)
    IN  IF more THEN [pc |-> "pg_row", pass |-> ps, row |-> nxt]
        ELSE IF ps = 1 THEN [pc |-> "pg_row", pass |-> 2, row |-> 2]
        ELSE IF ps = 2 THEN [pc |-> "pg_row", pass |-> 3, row |-> 1]
        ELSE [pc |-> "pg_expand", pass |-> 4, row |-> 0]

\* a width in the trailer that the block of the model cannot hold
BeyondBlock(wl) == ~FitsInt(wl) \/ IsNeg(wl) \/ ToInt(wl) > Len(mem)

\* The body of any of the three do-while loops (lines 262-268, 273-279,
\* 284-290): fread of info->width bytes to p + row * 3 * info->width.
\* fread stores the bytes it gets even when the row is short; a store past
\* the end of the block is undefined.
ProgRow ==
    /\ pc = "pg_row"
    /\ UNCHANGED rawVars
    /\ LET wl == FooterWidth
           w == ToInt(wl)
           row_start == row * 3 * w
           got == FreadN(file, fpos, w)
           stored == Store(mem, row_start, got.bytes)
           go == ProgGoOn(pass, row, Load8(stored, trailer + OffHeight))
       IN  IF BeyondBlock(wl) /\ fpos = Len(file)
           THEN /\ FlatFail("short read of row")
                /\ UNCHANGED <<fpos, mem, pass, row, written>>
           ELSE IF BeyondBlock(wl)
           THEN /\ pc' = "undefined"
                /\ UNCHANGED <<fpos, mem, format_problem, heap, diag, pass, row,
                               written>>
           ELSE IF Len(got.bytes) > 0 /\ row_start + Len(got.bytes) > Len(mem)
           THEN /\ pc' = "undefined"
                /\ UNCHANGED <<fpos, mem, format_problem, heap, diag, pass, row,
                               written>>
           ELSE IF w = 0 \/ Len(got.bytes) < w
           THEN /\ FlatFail("short read of row")
                /\ fpos' = got.fpos
                /\ mem' = stored
                /\ UNCHANGED <<pass, row, written>>
           ELSE /\ fpos' = got.fpos
                /\ mem' = stored
                /\ written' = Append(written, [pass |-> pass, row |-> row,
                                               at |-> row_start, n |-> w])
                /\ pc' = go.pc
                /\ pass' = go.pass
                /\ row' = go.row
                /\ UNCHANGED <<format_problem, heap, diag>>
    /\ UNCHANGED <<file, logging_fmt, size_limit, fmt, trailer, info, hdr, given,
                   feed, logVars, zooVars>>
    /\ UNCHANGED <<channel, y, x, buf, buf_read_pos, after, df, callVars>>

\* The inner loop of step 2 from column cl down to 0 (lines 298-317): m is
\* the block, bad tells why the loop stopped early
RECURSIVE ExpandRow(_, _, _)

\* the inner loop running from column 0 up to column cl
ExpandRow_forward(m, row_p, cl) ==
    IF cl < 0 THEN [mem |-> m, bad |-> "no"]
    ELSE LET e == ExpandRow(m, row_p, cl - 1)
             packed == e.mem[row_p + cl + 1]
             b == packed % 6
             g == (packed \div 6) % 6
             r == (packed \div 6) \div 6
         IN  IF e.bad # "no" THEN e
             ELSE IF row_p + 3 * cl + 2 >= Len(m)
             THEN [mem |-> e.mem, bad |-> "outside"]
             ELSE IF packed < 0 THEN [mem |-> e.mem, bad |-> "uninitialized"]
             ELSE IF packed >= 216 THEN [mem |-> e.mem, bad |-> "packed"]
             ELSE [mem |-> Store(e.mem, row_p + 3 * cl,
                                 <<51 * r, 51 * g, 51 * b>>),
                   bad |-> "no"]

ExpandRow(m, row_p, cl) ==
    IF cl < 0 THEN [mem |-> m, bad |-> "no"]
    ELSE IF row_p + 3 * cl + 2 >= Len(m) THEN [mem |-> m, bad |-> "outside"]
    ELSE LET packed == m[row_p + cl + 1]
             b == packed % 6
             g == (packed \div 6) % 6
             r == (packed \div 6) \div 6
         IN  IF packed < 0 THEN [mem |-> m, bad |-> "uninitialized"]
             ELSE IF packed >= 216 THEN [mem |-> m, bad |-> "packed"]
             ELSE ExpandRow(Store(m, row_p + 3 * cl, <<51 * r, 51 * g, 51 * b>>),
                            row_p, cl - 1)

\* One row of step 2 (lines 293-318)
ProgExpand ==
    /\ pc = "pg_expand"
    /\ UNCHANGED rawVars
    /\ LET wl == FooterWidth
           hl == FooterHeight
           w == ToInt(wl)
           e == ExpandRow(mem, row * 3 * w, w - 1)
       IN  IF BeyondBlock(wl) \/ BeyondBlock(hl)
           THEN /\ pc' = "large"
                /\ UNCHANGED <<mem, format_problem, heap, diag, row>>
           ELSE IF row < ToInt(hl)
           THEN IF e.bad \in {"outside", "uninitialized"}
                THEN /\ pc' = "undefined"
                     /\ UNCHANGED <<mem, format_problem, heap, diag, row>>
                ELSE IF e.bad = "packed"
                THEN /\ FlatFail("invalid packed byte")
                     /\ mem' = e.mem
                     /\ row' = row
                ELSE /\ mem' = e.mem
                     /\ row' = row + 1
                     /\ pc' = "pg_expand"
                     /\ UNCHANGED <<format_problem, heap, diag>>
           ELSE /\ pc' = "copy"
                /\ UNCHANGED <<mem, format_problem, heap, diag, row>>
    /\ UNCHANGED <<file, fpos, logging_fmt, size_limit, fmt, trailer, info, hdr,
                   given, feed, logVars, zooVars>>
    /\ UNCHANGED <<channel, y, x, buf, buf_read_pos, after, pass, written, df,
                   callVars>>

-----------------------------------------------------------------------------
(* BCPROG files                                                            *)

\* a BCPROG file: magic, flags (3 passes, 216 colours), width, height,
\* tags, the DATA tag, the rows in stream order
ProgFile(w, h, tags, rows) ==
    bcprog_magic \o <<0, 0, 0, 0, 0, 0, 1, 216>> \o BigEndian(w)
        \o BigEndian(h) \o tags \o TagDATA \o rows

MaxHeight == 6

ProgWidths == {1, 5}

\* what the bytes of the rows are: the first byte, the step from a byte to
\* the next, and the modulus
ProgFills == {<<0, 0, 216>>, <<7, 0, 216>>, <<5, 43, 216>>, <<214, 1, 256>>}

ProgBytes(v, n) == [i \in 1..n |-> (v[1] + v[2] * (i - 1)) % v[3]]

\* a BCPROG file of 5x2 whose payload is a row of five bytes, five bytes
\* with a 4 in the middle, and four bytes
ShrunkProg ==
    ProgFile(5, 2, <<>>, <<5, 48, 91, 134, 177>> \o <<0, 0, 4, 0, 0>>
                           \o <<1, 2, 3, 4>>)

\* parse_image is about to be called on a BCPROG file of height rows, with
\* nothing or one more row of bytes behind them
InitProg ==
    /\ pc = "opened"
    /\ \/ \E w \in ProgWidths, h \in 2..MaxHeight, v \in ProgFills, more \in 0..1 :
            /\ file = ProgFile(w, h, <<>>, ProgBytes(v, w * (h + more)))
            /\ given = [valid |-> more = 0, full |-> file, endless |-> FALSE]
       \/ /\ file = ShrunkProg
          /\ given = [valid |-> FALSE, full |-> file, endless |-> FALSE]
    /\ feed = NoFeed
    /\ NoLog
    /\ NoZoo
    /\ fpos = 0
    /\ format_problem = "null"
    /\ logging_fmt = [origin |-> "static", text |-> DefaultFmt]
    /\ size_limit = U64(26754)
    /\ fmt = "none"
    /\ heap = "none"
    /\ mem = <<>>
    /\ trailer = 0
    /\ info = "null"
    /\ hdr = NoHdr
    /\ diag = <<>>
    /\ NoRow
    /\ df = DfEntry(<<0>>, 1, [reg |-> Zero32, reg_size |-> 0, last |-> 0])
    /\ state = [reg |-> Zero32, reg_size |-> 0, last |-> 0]
    /\ comp_size = 0
    /\ num_pixels = 0
    /\ pixel_buf = <<>>

NextProg ==
    \/ ParseImage
    \/ ParseBcprog
    \/ ProcessTags
    \/ ProgEnter
    \/ ProgRow
    \/ ProgExpand
    \/ ReturnInfo

SpecProg == InitProg /\ [][NextProg]_vars

\* C2: in read_prog_data, for every accepted height from 2 up, the rows
\* stored are rows of the raster (below height), no row is stored twice,
\* and when the three passes are over the rows stored are exactly
\* 0..height-1 and height * width bytes were taken from the stream.
C2_RowsOnce ==
    fmt = "bcprog" =>
        LET h == ToInt(hdr.height)
            w == ToInt(hdr.width)
            n == Len(written)
        IN  /\ \A i \in 1..n : written[i].row < h
            /\ \A i, j \in 1..n : i # j => written[i].row # written[j].row
            /\ pc \in {"pg_expand", "copy", "ret_info"} =>
                  /\ {written[i].row : i \in 1..n} = 0..(h - 1)
                  /\ \A i \in 1..n : written[i].n = w
                  /\ n = h

\* a step of step 2 that expanded a row
Expanding == pc = "pg_expand" /\ pc' = "pg_expand" /\ row' = row + 1

\* the row is expanded as into a buffer of its own: the three bytes of
\* column c come from the index column c held before the step, and no
\* byte outside the row changes
ExpandedApart ==
    Expanding =>
        LET w == ToInt(FooterWidth)
            row_p == row * 3 * w
        IN  /\ \A c \in 0..(w - 1) :
                  LET v == mem[row_p + c + 1]
                  IN  /\ v \in 0..215
                      /\ mem'[row_p + 3 * c + 1] = 51 * (v \div 36)
                      /\ mem'[row_p + 3 * c + 2] = 51 * ((v \div 6) % 6)
                      /\ mem'[row_p + 3 * c + 3] = 51 * (v % 6)
            /\ Len(mem') = Len(mem)
            /\ \A i \in 1..Len(mem) :
                  (i <= row_p \/ i > row_p + 3 * w) => mem'[i] = mem[i]

\* C13: the palette expansion of read_prog_data, done in place from the
\* last column to the first, maps every stored index v of a row to the
\* triple (51*(v div 36), 51*((v div 6) mod 6), 51*(v mod 6)) at three
\* times its column; no index is overwritten before it is read, so the row
\* is what expanding it into a separate buffer gives.
C13_ExpandInPlace == [][ExpandedApart]_vars

\* an image whose first row held the indices 5, 48, 91, ... has been
\* returned
C13_Witness ==
    /\ pc = "ret_info"
    /\ fmt = "bcprog"
    /\ ToInt(FooterWidth) = 5
    /\ SubSeq(mem, 1, 9) = <<0, 0, 255, 51, 102, 0, 102, 153, 51>>

-----------------------------------------------------------------------------
(* main's start, parse_bcraw, and the headers the decoders accept          *)

RLIM_INFINITY == AllOnes

\* main line 213: size_limit = (long)sqrt(rlim.rlim_cur * 1024 / 3).  The
\* product is taken in unsigned 64 bits.  The quotients met here are below
\* 2^52, which a double holds exactly, and there the truncated sqrt is the
\* integer square root.
StackLimit(rlim_cur) == Isqrt(DivSmall(Mul(rlim_cur, U64(1024), 8), 3))

\* stack limits: none, 64 KiB, 2 MiB, 8 MiB, 2^54 bytes, unlimited
RlimCur ==
    {U64(0), U64(65536), U64(2097152), U64(8388608), PowLimb(54), RLIM_INFINITY}

\* main lines 207-214: getrlimit fails, or gives the soft limit
Startup ==
    /\ pc = "start"
    /\ \E res \in {0, -1}, rlim_cur \in RlimCur :
         size_limit' = IF res = 0 /\ rlim_cur # RLIM_INFINITY
                       THEN StackLimit(rlim_cur)
                       ELSE size_limit
    /\ pc' = "opened"
    /\ UNCHANGED <<file, fpos, format_problem, logging_fmt, fmt, heap, mem,
                   trailer, info, hdr, diag, given, feed, logVars, zooVars>>
    /\ UNCHANGED <<rowVars, df, callVars>>

\* parse_bcraw lines 193-214: flags, width, height; no check of the size
RawHeader(f, pos, problem) ==
    LET fl == Fread1(f, pos, 8)
        flags == fl.bytes
        d == ReadDims(f, fl.fpos, problem)
    IN  IF ~fl.ok THEN HdrFail("short read of flags", fl.fpos)
        ELSE IF \E i \in 1..7 : flags[i] # 0
        THEN HdrFail("reserved flags should be 0", fl.fpos)
        ELSE IF flags[8] # 8
        THEN HdrFail("unsupported depth", fl.fpos)
        ELSE d

ParseBcraw ==
    /\ pc = "bcraw"
    /\ LET h == RawHeader(file, fpos, format_problem)
       IN  IF h.ok THEN AllocateFor(h) ELSE Refuse(h)
    /\ UNCHANGED <<file, logging_fmt, size_limit, fmt, info, given, feed, logVars, zooVars>>
    /\ UNCHANGED <<rowVars, df, callVars>>

\* a BCRAW file: magic, flags (8 bits deep), width, height, tags, the DATA
\* tag, the pixels
RawFile(w, h, tags, pixels) ==
    bcraw_magic \o <<0, 0, 0, 0, 0, 0, 0, 8>> \o BigEndian(w)
        \o BigEndian(h) \o tags \o TagDATA \o pixels

\* n payload bytes, no two neighbours alike
RawPixels(n) == [i \in 1..n |-> (37 * i + 11) % 256]

\* declared sizes: small ones, the ends of the ranges the checks allow, and
\* sizes whose byte count does not fit 31 or 32 bits
HeaderDims ==
    {<<1, 1>>, <<2, 3>>, <<0, 5>>, <<800, 600>>, <<26754, 26754>>,
     <<26755, 1>>, <<53509, 53509>>, <<65536, 65536>>, <<37838, 37838>>,
     <<1, 2>>, <<801, 600>>, <<800, 601>>, <<0, 601>>}

\* the eight bytes of 2^63 and of 2^64 - 2 as the file holds them
HighBit == <<128, 0, 0, 0, 0, 0, 0, 0>>

AllButOne == <<255, 255, 255, 255, 255, 255, 255, 254>>

\* declared sizes of 2^63 and more, as the bytes of the two fields
WideDims ==
    {<<HighBit, BigEndian(2)>>, <<BigEndian(5), HighBit>>,
     <<AllButOne, BigEndian(2)>>, <<AllOnes, BigEndian(2)>>,
     <<BigEndian(5), AllOnes>>}

\* files of 2x3 that end in the flags, in the width, in the height, or in
\* the identifier of the first tag
CutHeaders ==
    {SubSeq(f, 1, k) : f \in {RawFile(2, 3, <<>>, <<>>), FlatFile(2, 3, <<>>, <<>>),
                              ProgFile(2, 3, <<>>, <<>>)},
                      k \in {8, 12, 16, 20, 28, 34}}

\* a file that ends with the DATA tag, given the bytes of its sizes
WideFile(magic, flags, d) == magic \o flags \o d[1] \o d[2] \o TagDATA

HeaderFiles ==
    {RawFile(d[1], d[2], <<>>, <<>>) : d \in HeaderDims}
        \cup {FlatFile(d[1], d[2], <<>>, <<>>) : d \in HeaderDims}
        \cup {ProgFile(d[1], d[2], <<>>, <<>>) : d \in HeaderDims}
        \cup {WideFile(bcraw_magic, <<0, 0, 0, 0, 0, 0, 0, 8>>, d) :
                 d \in WideDims}
        \cup {WideFile(bcflat_magic, <<0, 0, 0, 0, 0, 0, 13, 3>>, d) :
                 d \in WideDims}
        \cup {WideFile(bcprog_magic, <<0, 0, 0, 0, 0, 0, 1, 216>>, d) :
                 d \in WideDims}
        \cup CutHeaders

\* the program starts and is given a file
InitHdr ==
    /\ pc = "start"
    /\ file \in HeaderFiles
    /\ given = [valid |-> FALSE, full |-> file, endless |-> FALSE]
    /\ feed = NoFeed
    /\ NoLog
    /\ NoZoo
    /\ fpos = 0
    /\ format_problem = "null"
    /\ logging_fmt = [origin |-> "static", text |-> DefaultFmt]
    /\ size_limit = U64(26754)
    /\ fmt = "none"
    /\ heap = "none"
    /\ mem = <<>>
    /\ trailer = 0
    /\ info = "null"
    /\ hdr = NoHdr
    /\ diag = <<>>
    /\ NoRow
    /\ df = DfEntry(<<0>>, 1, [reg |-> Zero32, reg_size |-> 0, last |-> 0])
    /\ state = [reg |-> Zero32, reg_size |-> 0, last |-> 0]
    /\ comp_size = 0
    /\ num_pixels = 0
    /\ pixel_buf = <<>>

NextHdr ==
    \/ Startup
    \/ ParseImage
    \/ ParseBcraw
    \/ ParseBcprog
    \/ ParseBcflat
    \/ ProcessTags

SpecHdr == InitHdr /\ [][NextHdr]_vars

\* the decoder has accepted the header and asked for the block
Accepted == pc \in {"tags", "data", "large", "exit", "undefined"}

\* 3 * width * height without wrap-around
ExactBytes == Mul(Mul(U64(3), hdr.width, 16), hdr.height, 16)

\* C3: for every header a decoder accepts, the byte count of the raster it
\* allocates is the exact value of 3 * width * height.
C3_ExactRaster ==
    Accepted =>
        /\ FitsInt(ExactBytes)
        /\ ToInt(Resize(ExactBytes, 4)) = hdr.num_bytes

\* C4: after main's adjustment size_limit is at most 26754, and every
\* BCFLAT header accepted has 1 <= width, height <= 26754 and
\* 3 * width * height < 2^31.
C4_LimitCeiling ==
    pc # "start" =>
        /\ ~LessS(U64(26754), size_limit)
        /\ (Accepted /\ fmt = "bcflat") =>
              /\ ~LessS(hdr.width, U64(1)) /\ ~LessS(U64(26754), hdr.width)
              /\ ~LessS(hdr.height, U64(1)) /\ ~LessS(U64(26754), hdr.height)
              /\ FitsInt(ExactBytes)

\* the width and the height the file declares, as unsigned 64-bit values
DeclaredWidth == [j \in 1..8 |-> file[25 - j]]

DeclaredHeight == [j \in 1..8 |-> file[33 - j]]

TooSmall == IsZero(DeclaredWidth) \/ LessU(DeclaredHeight, U64(2))

TooLarge == LessU(U64(800), DeclaredWidth) \/ LessU(U64(600), DeclaredHeight)

\* C14: parse_bcprog rejects, before a raster is allocated, every header
\* whose width as an unsigned 64-bit value is 0 or whose height is below 2
\* with "size too small", and every header whose width is above 800 or
\* whose height is above 600 with "size too large"; so every BCPROG raster
\* has 1 <= width <= 800 and 2 <= height <= 600.
C14_ProgSizes ==
    (fmt = "bcprog" /\ pc # "bcprog" /\ Len(file) >= 32) =>
        /\ (TooSmall \/ TooLarge) =>
              /\ pc = "ret_null"
              /\ heap = "none"
              /\ \/ TooSmall /\ format_problem = "size too small"
                 \/ TooLarge /\ format_problem = "size too large"
        /\ heap # "none" =>
              /\ ~LessU(hdr.width, U64(1)) /\ ~LessU(U64(800), hdr.width)
              /\ ~LessU(hdr.height, U64(2)) /\ ~LessU(U64(600), hdr.height)

\* C18: whenever parse_image returns null after the magic number matched
\* one of the three formats, a reason has been recorded for this decode:
\* format_problem is not null and was set during the call, on every failure
\* path of the three decoders and of process_tagged_data, short reads of
\* the flags and 64-bit fields of eight 0xFF bytes included.
C18_ReasonRecorded ==
    (pc = "ret_null" /\ fmt # "none") => format_problem # "null"

\* the caller's test of the result of read_u64_bigendian (core1.c lines
\* 93, 211, 214)
SeenAsFailure(r) == r.val = AllOnes

\* the unsigned value of the eight bytes of f from position pos on
FieldValue(f, pos) == [j \in 1..8 |-> f[pos + 9 - j]]

\* C19: a caller of read_u64_bigendian sees a failure if and only if fewer
\* than 8 bytes were left in the stream; with 8 bytes b0..b7 it obtains the
\* sum of b_i * 256^(7-i) and takes the read as successful, for every
\* combination of bytes, eight 0xFF bytes included.
C19_FailureIffShort ==
    (fmt # "none" /\ pc \notin {"start", "opened", "bcraw", "bcprog", "bcflat"}) =>
        /\ \A pos \in {16, 24} :
              LET r == read_u64_bigendian(file, pos, "null")
              IN  /\ SeenAsFailure(r) <=> Len(file) < pos + 8
                  /\ Len(file) >= pos + 8 => r.val = FieldValue(file, pos)
        /\ (fmt = "bcraw" /\ Len(file) >= 32) =>
              ~(pc = "ret_null" /\ heap = "none")

-----------------------------------------------------------------------------
(* One process opening several files: on_open_image, display_image,        *)
(* print_log_msg, free_image_info                                          *)

\* on_open_image line 147 (main lines 218, 246): parse_image is called on
\* the next file.  Its locals are new; format_problem, logging_fmt and
\* size_limit are globals and keep their values.
OpenFile ==
    /\ pc = "idle"
    /\ files # <<>>
    /\ file' = Head(files)
    /\ files' = Tail(files)
    /\ fpos' = 0
    /\ fmt' = "none"
    /\ heap' = "none"
    /\ mem' = <<>>
    /\ trailer' = 0
    /\ info' = "null"
    /\ hdr' = NoHdr
    /\ diag' = <<>>
    /\ pc' = "opened"
    /\ UNCHANGED <<format_problem, logging_fmt, size_limit, given, feed, printed, zooVars>>
    /\ UNCHANGED <<rowVars, df, callVars>>

\* if (info) display_image(...): nothing is shown for a null result
NoImage ==
    /\ pc = "ret_null"
    /\ pc' = "idle"
    /\ UNCHANGED <<parseVars, rowVars, df, callVars>>

\* print_log_msg: printf(logging_fmt, info->width, info->height, time_str,
\* info->create_time)
PrintLog ==
    /\ pc = "ret_info"
    /\ printed' = Append(printed,
                    [file |-> file,
                     format |-> logging_fmt,
                     width |-> info.width,
                     height |-> info.height,
                     time_str |-> IF info.create_time # AllOnes THEN "strftime"
                                  ELSE "recently",
                     create_time |-> info.create_time])
    /\ pc' = "printed"
    /\ UNCHANGED <<file, fpos, format_problem, logging_fmt, size_limit, fmt,
                   heap, mem, trailer, info, hdr, diag, given, feed, files, zooVars>>
    /\ UNCHANGED <<rowVars, df, callVars>>

\* free_image_info: the destructor is called if the pointer is not null,
\* then the pixels and the structure are freed.  A pointer that is not the
\* value the decoder stored is a pointer the file chose.
FreeInfo ==
    /\ pc = "printed"
    /\ IF (\E j \in 1..8 : info.cleanup[j] # 0) \/ info.pixels # BlockAddr
       THEN /\ pc' = "undefined"
            /\ UNCHANGED heap
       ELSE /\ pc' = "idle"
            /\ heap' = "freed"
    /\ UNCHANGED <<file, fpos, format_problem, logging_fmt, size_limit, fmt,
                   mem, trailer, info, hdr, diag, given, feed, logVars, zooVars>>
    /\ UNCHANGED <<rowVars, df, callVars>>

\* the header of a file, read by the decoder its magic number selects
HeaderOf(f) ==
    LET m == Fread1(f, 0, 8)
    IN  IF m.bytes = bcraw_magic THEN RawHeader(f, m.fpos, "null")
        ELSE IF m.bytes = bcprog_magic THEN ProgHeader(f, m.fpos, "null")
        ELSE FlatHeader(f, m.fpos, "null", size_limit)

\* The format a process that has opened no other file prints the message
\* of file f with
FreshFormat(f) ==
    process_tagged_data(f, HeaderOf(f).fpos, "null",
                        [origin |-> "static", text |-> DefaultFmt],
                        AllOnes).logging_fmt

\* A BCRAW file of 1x1, the first 24 payload bytes of a BCRAW file of
\* 65536 by 65536, and 2x1 BCFLAT files: without tags, with a FRMT tag
\* "%n", with a TIME tag, and with a FRMT tag "%s%s" followed by a tag no
\* decoder knows
LogRows == Times(<<10, 224, 0>>, 3)

LogFiles ==
    { RawFile(1, 1, <<>>, RawPixels(3)),
      RawFile(65536, 65536, <<>>,
              BigEndian(0) \o BigEndian(0) \o <<1, 0, 0, 0, 0, 0, 0, 0>>),
      FlatFile(2, 1, <<>>, LogRows),
      FlatFile(2, 1, TagFRMT \o BigEndian(2) \o <<37, 110>>, LogRows),
      FlatFile(2, 1, TagTIME \o BigEndian(8) \o BigEndian(1000), LogRows),
      FlatFile(2, 1, TagFRMT \o BigEndian(4) \o <<37, 115, 37, 115>>
                       \o <<88, 88, 88, 88>> \o BigEndian(0), LogRows) }

MaxFiles == 2

\* the viewer is running and the user opens up to MaxFiles files in turn
InitLog ==
    /\ pc = "idle"
    /\ files \in SeqsUpTo(LogFiles, MaxFiles) \ {<<>>}
    /\ printed = <<>>
    /\ NoZoo
    /\ file = <<>>
    /\ fpos = 0
    /\ format_problem = "null"
    /\ logging_fmt = [origin |-> "static", text |-> DefaultFmt]
    /\ size_limit = U64(26754)
    /\ fmt = "none"
    /\ heap = "none"
    /\ mem = <<>>
    /\ trailer = 0
    /\ info = "null"
    /\ hdr = NoHdr
    /\ diag = <<>>
    /\ given = [valid |-> FALSE, full |-> <<>>, endless |-> FALSE]
    /\ feed = NoFeed
    /\ NoRow
    /\ df = DfEntry(<<0>>, 1, [reg |-> Zero32, reg_size |-> 0, last |-> 0])
    /\ state = [reg |-> Zero32, reg_size |-> 0, last |-> 0]
    /\ comp_size = 0
    /\ num_pixels = 0
    /\ pixel_buf = <<>>

NextLog ==
    \/ OpenFile
    \/ ParseImage
    \/ ParseBcraw
    \/ RawEnter
    \/ RawRead
    \/ ParseBcflat
    \/ ProcessTags
    \/ FlatEnter
    \/ FlatRow
    \/ FlatFill
    \/ DecodeLoop
    \/ DecodeTail
    \/ FlatAfter
    \/ ReturnInfo
    \/ NoImage
    \/ PrintLog
    \/ FreeInfo

SpecLog == InitLog /\ [][NextLog]_vars

\* C5: no call of printf in print_log_msg has a format whose bytes came
\* from the file: the bytes of a FRMT tag are data only.
C5_FormatInert ==
    \A i \in 1..Len(printed) : printed[i].format.origin = "static"

\* C6: the message printed for a file is made with the format a process
\* that opened only this file would use: nothing an earlier file set is
\* left over.
C6_NoCarryOver ==
    \A i \in 1..Len(printed) :
        printed[i].format.text = FreshFormat(printed[i].file).text

-----------------------------------------------------------------------------
(* C11: the order and the places of the stores of read_flat_data           *)

\* the width and height of the header
HdrWidth == ToInt(Resize(hdr.width, 4))

HdrHeight == ToInt(Resize(hdr.height, 4))

\* a step of read_flat_data that stored samples
Storing ==
    \/ pc = "rf_row" /\ pc' # "ret_null"
    \/ pc = "df_ret" /\ after'.kind = "stored"

\* the stores of a step go to raster index 3*(y*width + column) + channel
\* for the columns from x on (column 0 for the literal byte), to bytes not
\* stored before, and change nothing else
StoreStep ==
    Storing =>
        LET at == after'.at
            col0 == IF pc = "rf_row" THEN 0 ELSE x
        IN  /\ \A k \in 1..Len(at) :
                 /\ at[k] = 3 * (y * HdrWidth + col0 + k - 1) + channel
                 /\ at[k] < 3 * HdrWidth * HdrHeight
                 /\ mem[at[k] + 1] = -1
                 /\ mem'[at[k] + 1] \in 0..255
            /\ \A i \in 1..Len(mem) :
                 (\A k \in 1..Len(at) : at[k] + 1 # i) => mem'[i] = mem[i]

\* at the start of a row the state is the literal byte and an empty register
ResetStep ==
    (pc = "rf_row" /\ pc' # "ret_null") =>
        /\ state'.last = mem'[3 * y * HdrWidth + channel + 1]
        /\ state'.reg_size = 0
        /\ state'.reg = Zero32

\* rows follow each other within a channel, channels follow each other
OrderStep ==
    (pc \in {"rf_row", "rf_fill", "df_ret"} /\ <<channel', y'>> # <<channel, y>>) =>
        /\ x' = HdrWidth
        /\ <<channel', y'>> = IF y + 1 < HdrHeight THEN <<channel, y + 1>>
                              ELSE <<channel + 1, 0>>

\* C11: a successful BCFLAT decode goes through channels 0, 1, 2 and within
\* each through rows 0..height-1; every row starts from its literal byte
\* with an empty register; the sample of (channel c, row y, column x) goes
\* to raster index 3*(y*width + x) + c; each of the 3*width*height bytes is
\* stored exactly once.
C11_RasterOrder ==
    /\ [][StoreStep]_vars
    /\ [][ResetStep]_vars
    /\ [][OrderStep]_vars
    /\ [](pc = "rf_row" /\ after.kind = "none" => channel = 0 /\ y = 0)
    /\ []((pc \in {"copy", "ret_info"} /\ fmt = "bcflat") =>
            /\ channel = 2
            /\ y = HdrHeight - 1
            /\ \A i \in 1..(3 * HdrWidth * HdrHeight) : mem[i] \in 0..255)

\* a 3x2 image has been decoded
C11_Witness ==
    /\ pc = "ret_info"
    /\ fmt = "bcflat"
    /\ HdrWidth = 3
    /\ HdrHeight = 2
    /\ after.kind = "stored"
    /\ after.channel = 2
    /\ after.y = 1

-----------------------------------------------------------------------------
(* BCRAW files                                                             *)

\* the tag TIME with the eight bytes of its value
TagTimeOf(bytes) == TagTIME \o BigEndian(8) \o bytes

\* sizes whose rows take the first loop, the second, or both
RawDims == {<<1, 1>>, <<2, 2>>, <<8, 2>>, <<9, 1>>, <<17, 1>>, <<10, 2>>}

\* up to MaxSpare bytes follow the payload
MaxSpare == 1

\* BCRAW files that hold their whole payload: the magic number, flags of 0
\* and 8, a width and a height of 1 or more, the DATA tag at once, and
\* 3 * width * height bytes or more
ValidRaw ==
    {RawFile(d[1], d[2], <<>>, RawPixels(3 * d[1] * d[2] + k)) :
        d \in RawDims, k \in 0..MaxSpare}

\* the first bytes of BCRAW files of 65536 by 65536 pixels, whose payload
\* of 3 * 2^32 bytes goes on beyond them
LongRaw ==
    {RawFile(65536, 65536, <<>>, Times(<<b>>, 72)) : b \in {0, 1}}

\* files cut short in their payload, files without pixels, and a tag
\* before DATA
OtherRaw ==
    {SubSeq(f, 1, Len(f) - k) : f \in ValidRaw, k \in 1..2}
        \cup {RawFile(0, 5, <<>>, <<>>), RawFile(3, 0, <<>>, <<>>),
              RawFile(0, 0, <<>>, RawPixels(3))}
        \cup {RawFile(2, 2, TagTimeOf(BigEndian(77)), RawPixels(12))}

\* a tag no decoder knows
TagOther == <<88, 88, 88, 88>>

\* declared tag sizes, as the bytes of the field: 0, 2, 8, 9, 2^40,
\* 2^40 + 1, 2^63, 2^64 - 2, 2^64 - 1
TagSizes ==
    {BigEndian(0), BigEndian(2), BigEndian(8), BigEndian(9),
     <<0, 0, 1, 0, 0, 0, 0, 0>>, <<0, 0, 1, 0, 0, 0, 0, 1>>,
     HighBit, AllButOne, AllOnes}

\* timestamps, as the bytes of the tag's value: 77, 2^63, 2^64 - 2, 2^64 - 1
TimeValues == {BigEndian(77), HighBit, AllButOne, AllOnes}

\* BCRAW files of one pixel with a tag before DATA: every kind of tag with
\* every size and eight bytes behind it, and TIME tags of size 8 with
\* every value
TaggedRaw ==
    {RawFile(1, 1, id \o size \o BigEndian(77), RawPixels(3)) :
        id \in {TagTIME, TagFRMT, TagOther}, size \in TagSizes}
        \cup {RawFile(1, 1, TagTimeOf(v), RawPixels(3)) : v \in TimeValues}

\* files that end inside a tag: in the identifier, in the size, in the
\* value of a TIME tag
CutRaw ==
    {SubSeq(RawFile(1, 1, TagTimeOf(BigEndian(77)), <<>>), 1, 32 + k) :
        k \in {2, 4, 9, 12, 15, 19}}

\* parse_image is about to be called on a BCRAW file
InitRaw ==
    /\ pc = "opened"
    /\ file \in ValidRaw \cup LongRaw \cup OtherRaw \cup TaggedRaw \cup CutRaw
    /\ given = [valid |-> file \in ValidRaw \cup LongRaw, full |-> file,
                endless |-> file \in LongRaw]
    /\ feed = NoFeed
    /\ NoLog
    /\ NoZoo
    /\ fpos = 0
    /\ format_problem = "null"
    /\ logging_fmt = [origin |-> "static", text |-> DefaultFmt]
    /\ size_limit = U64(26754)
    /\ fmt = "none"
    /\ heap = "none"
    /\ mem = <<>>
    /\ trailer = 0
    /\ info = "null"
    /\ hdr = NoHdr
    /\ diag = <<>>
    /\ NoRow
    /\ df = DfEntry(<<0>>, 1, [reg |-> Zero32, reg_size |-> 0, last |-> 0])
    /\ state = [reg |-> Zero32, reg_size |-> 0, last |-> 0]
    /\ comp_size = 0
    /\ num_pixels = 0
    /\ pixel_buf = <<>>

NextRaw ==
    \/ ParseImage
    \/ ParseBcraw
    \/ ProcessTags
    \/ RawEnter
    \/ RawRead
    \/ ReturnInfo

SpecRaw == InitRaw /\ [][NextRaw]_vars

\* the payload of the file: what follows the magic number, the flags, the
\* two sizes and the DATA tag
Payload == SubSeq(file, 37, Len(file))

\* 3 * w * h for the width and height of the header, in 128 bits
RasterBytes ==
    Mul(Mul(U64(3), Resize(hdr.width, 16), 16), Resize(hdr.height, 16), 16)

\* C12: every BCRAW file with the right magic number, flags of 0 and 8, a
\* width w and a height h of 1 or more, the DATA tag at once and at least
\* 3*w*h bytes of payload decodes successfully to an image of width w and
\* height h without a timestamp, whose raster byte i is payload byte i for
\* every i below 3*w*h.
C12_RawIdentity ==
    given.valid =>
        /\ pc \notin {"ret_null", "undefined", "aborted", "exit"}
        /\ pc = "ret_info" =>
             /\ info.width = hdr.width
             /\ info.height = hdr.height
             /\ info.create_time = AllOnes
             /\ FitsInt(RasterBytes)
             /\ \A i \in 1..ToInt(RasterBytes) :
                    i <= Len(mem) /\ mem[i] = Payload[i]

-----------------------------------------------------------------------------
(* C15, C16: the tags of a file                                            *)

\* the file has a tag before DATA with its size field, and
\* process_tagged_data has returned
TagSeen ==
    /\ fmt = "bcraw"
    /\ Len(file) >= 44
    /\ SubSeq(file, 33, 36) # TagDATA
    /\ pc \notin {"opened", "bcraw", "tags"}

\* the identifier and the declared size of the first tag
TagIdent == SubSeq(file, 33, 36)

TagSize == [j \in 1..8 |-> file[45 - j]]

\* C15: process_tagged_data rejects every tag whose declared size is above
\* 2^40, up to 2^64-1, with "tag too large" whatever its identifier,
\* before a byte of its payload is read and before a buffer is allocated
\* for it; a size of exactly 2^40 is not rejected by this check.
C15_TagCeiling ==
    TagSeen =>
        /\ LessU(PowLimb(40), TagSize) =>
              /\ pc = "ret_null"
              /\ format_problem = "tag too large"
              /\ fpos = 44
              /\ logging_fmt.origin = "static"
        /\ TagSize = PowLimb(40) => format_problem # "tag too large"

\* the first tag is a TIME tag
TimeSeen == TagSeen /\ TagIdent = TagTIME

\* the eight bytes behind the size of the first tag, as a value
TimeValue == [j \in 1..8 |-> file[53 - j]]

\* print_log_msg takes the creation time as present (line 534)
TimePresent == info.create_time # AllOnes

\* C16: a TIME tag whose declared size is not 8 fails with "wrong size for
\* TIME"; with size 8 the next eight bytes are the creation timestamp, so
\* an image decoded from a file whose TIME tag holds v reports the creation
\* time as present and equal to v, for every v up to 2^64-1; a stream that
\* ends inside the eight bytes makes the decode fail.
C16_TimeTag ==
    TimeSeen =>
        /\ (TagSize # U64(8) /\ ~LessU(PowLimb(40), TagSize)) =>
              pc = "ret_null" /\ format_problem = "wrong size for TIME"
        /\ (TagSize = U64(8) /\ Len(file) >= 52 /\ pc = "ret_info") =>
              TimePresent /\ info.create_time = TimeValue
        /\ (TagSize = U64(8) /\ Len(file) < 52) => pc = "ret_null"

-----------------------------------------------------------------------------
(* C17: the life of the raster                                             *)

\* a step that frees the raster: a decoder's free(pixels) before it returns
\* 0, or free_image_info
Freeing ==
    \/ pc' = "ret_null" /\ pc \notin {"opened", "bcraw", "bcprog", "bcflat"}
    \/ pc = "printed" /\ pc' = "idle"

\* a raster is allocated where there was none, freed where one was live,
\* and a free is always of a live raster; the next file is opened when the
\* raster of the last one is gone
RasterStep ==
    /\ Freeing => heap = "live" /\ heap' = "freed"
    /\ heap' # heap =>
          \/ heap = "none" /\ heap' = "live"
          \/ heap = "live" /\ Freeing
          \/ heap = "freed" /\ heap' = "none" /\ pc = "idle"

\* free_image_info did not come to its end: the message of the file was
\* printed and what followed is undefined
FreeLost ==
    /\ pc = "undefined"
    /\ printed # <<>>
    /\ printed[Len(printed)].file = file

\* a null result and the end of display_image leave no raster behind, and
\* free_image_info comes to its end
RasterGone ==
    /\ pc \in {"ret_null", "idle"} => heap # "live"
    /\ ~FreeLost

\* C17: from its allocation to the end of the image's life the raster is
\* released exactly once: a decoder that fails after the allocation frees
\* it and returns null, an image decoded goes to one consumer after which
\* free_image_info runs once and calls the cleanup hook at most once; no
\* path frees the raster twice or leaves it allocated.
C17_RasterOnce == [][RasterStep]_vars /\ []RasterGone

-----------------------------------------------------------------------------
(* C20: the size of a decoded image                                        *)

\* C20: every image a successful parse_image returns, whatever the format,
\* has a width of 1 or more and a height of 1 or more.
C20_PositiveSize ==
    pc = "ret_info" =>
        /\ LessS(U64(0), info.width)
        /\ LessS(U64(0), info.height)

-----------------------------------------------------------------------------
(* C23: decode_flat on a full buffer of a wide row                         *)

\* seven bytes that hold eight times the codeword 0011111, which stands
\* for eight samples equal to the last one
RunBytes == <<62, 124, 249, 243, 231, 207, 159>>

\* seven bytes that hold eight times the codeword 1101000 of one sample
StepBytes == <<209, 163, 70, 141, 26, 52, 104>>

\* the FLATBUF bytes read_flat_data hands over when the file goes on with
\* the seven bytes of unit
FullBuf(unit) == SubSeq(Times(unit, (FLATBUF \div 7) + 1), 1, FLATBUF)

\* info->width - 1 for rows of 101, 809 and 1000 samples
WideRows == {100, 808, 999}

\* The first call of decode_flat in a row of a wide image: read_flat_data
\* has taken the first byte as the row's first sample, emptied the
\* register and filled buf
InitWide ==
    /\ pc = "df_loop"
    /\ \E unit \in {RunBytes, StepBytes}, m \in WideRows, l \in DecodeLasts :
         /\ state = [reg |-> Zero32, reg_size |-> 0, last |-> l]
         /\ df = DfEntry(FullBuf(unit), m, state)
         /\ comp_size = FLATBUF
         /\ num_pixels = m
    /\ pixel_buf = <<>>
    /\ NoFile
    /\ NoRow

SpecWide == InitWide /\ [][NextDecode]_vars

\* C23: in every decode_flat call made by read_flat_data (at most FLATBUF
\* compressed bytes and at most 7 carried bits, max_pixels up to width - 1)
\* the number of samples written to uncomp_buf never exceeds its capacity
\* EXPANSION * (FLATBUF + 1), and the number copied to the caller's
\* pixel_buf never exceeds 3 * EXPANSION * FLATBUF.
C23_BuffersHold ==
    /\ ~df.smash
    /\ Len(df.uncomp_buf) <= EXPANSION * (FLATBUF + 1)
    /\ Len(pixel_buf) <= 3 * EXPANSION * FLATBUF

-----------------------------------------------------------------------------
(* C24: the trailer while the payload is read                              *)

\* the decoder is reading the payload, or has read it
PayloadRead ==
    pc \in {"data", "pg_row", "pg_expand", "rw_group", "rw_single", "rf_row",
            "rf_fill", "df_loop", "df_tail", "df_ret", "copy", "ret_info"}

\* the five fields of the trailer are what the decoder stored in them
\* before the payload: the sizes of the header, the block, no cleanup
\* hook, and no timestamp in a file without a TIME tag
TrailerKept ==
    /\ FooterWidth = hdr.width
    /\ FooterHeight = hdr.height
    /\ Load8(mem, trailer + OffPixels) = BlockAddr
    /\ Load8(mem, trailer + OffCleanup) = U64(0)
    /\ Load8(mem, trailer + OffCreateTime) = AllOnes

\* C24: the metadata of a returned image is determined by the header and
\* the tags alone: width and height are those of the header, there is no
\* cleanup hook, the timestamp is that of the TIME tag or absent; no byte
\* of the payload changes the width, height, cleanup hook, timestamp or
\* pixel pointer the trailer held before the payload was read.
C24_MetadataFixed ==
    /\ PayloadRead => TrailerKept
    /\ pc = "ret_info" =>
         /\ info.width = hdr.width
         /\ info.height = hdr.height
         /\ info.pixels = BlockAddr
         /\ info.cleanup = U64(0)
         /\ info.create_time = AllOnes

-----------------------------------------------------------------------------
(* ps1-animals: the lists of animals and the table of their numbers        *)

\* the blocks malloc(sizeof(struct herbivore)) may return: any block that
\* is not in use, one it has freed before included
Malloc == {a \in 1..MaxCells : cells[a].alloc # "live"}

\* new_herbivore(x)
NewHerbivore(n) ==
    /\ pc = "prompt"
    /\ \E hp \in Malloc :
         /\ cells' = [cells EXCEPT ![hp] =
                        [alloc |-> "live",
                         next |-> herbivore_list,
                         word |-> [as |-> "func",
                                   v |-> IF n % 2 = 1 THEN "odd_toes"
                                                      ELSE "even_toes"]]]
         /\ herbivore_list' = hp
         /\ animals_by_num' = [animals_by_num EXCEPT ![Loc(n)] = hp]
    /\ pc' = "prompt"
    /\ UNCHANGED <<carnivore_list, listed>>
    /\ UNCHANGED <<file, fpos, format_problem, logging_fmt, size_limit, fmt,
                   heap, mem, trailer, info, hdr, diag, given, feed, files,
                   printed>>
    /\ UNCHANGED <<rowVars, df, callVars>>

\* new_carnivore(x)
NewCarnivore(n) ==
    /\ pc = "prompt"
    /\ \E cp \in Malloc :
         /\ cells' = [cells EXCEPT ![cp] =
                        [alloc |-> "live",
                         next |-> carnivore_list,
                         word |-> [as |-> "long", v |-> n]]]
         /\ carnivore_list' = cp
         /\ animals_by_num' = [animals_by_num EXCEPT ![Loc(n)] = cp]
    /\ pc' = "prompt"
    /\ UNCHANGED <<herbivore_list, listed>>
    /\ UNCHANGED <<file, fpos, format_problem, logging_fmt, size_limit, fmt,
                   heap, mem, trailer, info, hdr, diag, given, feed, files,
                   printed>>
    /\ UNCHANGED <<rowVars, df, callVars>>

\* release_animal(x): exit(1) for an empty slot; free of a block that is
\* not in use is undefined
ReleaseAnimal(n) ==
    /\ pc = "prompt"
    /\ LET a == animals_by_num[Loc(n)]
       IN  IF a = 0
           THEN /\ pc' = "exit"
                /\ UNCHANGED <<animals_by_num, cells>>
           ELSE IF cells[a].alloc # "live"
           THEN /\ pc' = "undefined"
                /\ UNCHANGED <<animals_by_num, cells>>
           ELSE /\ cells' = [cells EXCEPT ![a] = FreedCell]
                /\ animals_by_num' = [animals_by_num EXCEPT ![Loc(n)] = 0]
                /\ pc' = "prompt"
    /\ UNCHANGED <<herbivore_list, carnivore_list, listed>>
    /\ UNCHANGED <<file, fpos, format_problem, logging_fmt, size_limit, fmt,
                   heap, mem, trailer, info, hdr, diag, given, feed, files,
                   printed>>
    /\ UNCHANGED <<rowVars, df, callVars>>

\* one loop of list_animals from block a on, reading every block as an
\* animal of the list's kind: what it prints, and whether it ends at a
\* null pointer, reads a block that is not an animal of that kind in use,
\* or has gone through more blocks than there are
RECURSIVE Walk(_, _, _)
Walk(kind, a, left) ==
    IF a = 0 THEN [out |-> <<>>, end |-> "null"]
    ELSE IF cells[a].alloc # "live" \/ cells[a].word.as # kind
    THEN [out |-> <<>>, end |-> "stale"]
    ELSE IF left = 0 THEN [out |-> <<>>, end |-> "cycle"]
    ELSE LET rest == Walk(kind, cells[a].next, left - 1)
         IN  [out |-> <<cells[a].word>> \o rest.out, end |-> rest.end]

\* list_animals(): the herbivores, then the carnivores; reading a block
\* that was freed is undefined, a list that closes on itself never ends
ListAnimals ==
    /\ pc = "prompt"
    /\ LET hs == Walk("func", herbivore_list, MaxCells)
           cs == Walk("long", carnivore_list, MaxCells)
       IN  IF hs.end # "null"
           THEN /\ listed' = hs.out
                /\ pc' = IF hs.end = "stale" THEN "undefined" ELSE "spin"
           ELSE /\ listed' = hs.out \o cs.out
                /\ pc' = CASE cs.end = "null" -> "prompt"
                           [] cs.end = "stale" -> "undefined"
                           [] OTHER -> "spin"
    /\ UNCHANGED <<herbivore_list, carnivore_list, animals_by_num, cells>>
    /\ UNCHANGED <<file, fpos, format_problem, logging_fmt, size_limit, fmt,
                   heap, mem, trailer, info, hdr, diag, given, feed, files,
                   printed>>
    /\ UNCHANGED <<rowVars, df, callVars>>

\* main: 'q' or the end of the input
Quit ==
    /\ pc = "prompt"
    /\ pc' = "quit"
    /\ UNCHANGED <<parseVars, rowVars, df, callVars>>

\* main: any other character is "Unrecognized command", exit(1)
Unrecognized ==
    /\ pc = "prompt"
    /\ pc' = "exit"
    /\ UNCHANGED <<parseVars, rowVars, df, callVars>>

\* ps1-animals waits for its first command
InitAnimals ==
    /\ pc = "prompt"
    /\ NoFile
    /\ NoRow
    /\ df = DfEntry(<<0>>, 1, [reg |-> Zero32, reg_size |-> 0, last |-> 0])
    /\ state = [reg |-> Zero32, reg_size |-> 0, last |-> 0]
    /\ comp_size = 0
    /\ num_pixels = 0
    /\ pixel_buf = <<>>

NextAnimals ==
    \/ \E n \in AnimalNums : NewHerbivore(n)
    \/ \E n \in AnimalNums : NewCarnivore(n)
    \/ \E n \in AnimalNums : ReleaseAnimal(n)
    \/ ListAnimals
    \/ Quit
    \/ Unrecognized

SpecAnimals == InitAnimals /\ [][NextAnimals]_vars

\* the blocks list_animals reads from block a on, following next whatever
\* the block holds
RECURSIVE Reached(_, _)
Reached(a, left) ==
    IF a = 0 \/ left = 0 THEN {}
    ELSE {a} \cup Reached(cells[a].next, left - 1)

\* the blocks in use
Live == {a \in 1..MaxCells : cells[a].alloc = "live"}

\* C25: after any sequence of h/c/r/l commands no freed animal is
\* accessed: every node reachable from herbivore_list or carnivore_list
\* when list_animals runs is still allocated, every pointer in
\* animals_by_num is null or points to a live allocation, and
\* release_animal never frees the same allocation twice, also when two
\* animals share a slot.
C25_NoFreedAnimal ==
    /\ pc = "prompt" =>
         /\ Reached(herbivore_list, MaxCells) \subseteq Live
         /\ Reached(carnivore_list, MaxCells) \subseteq Live
    /\ \A s \in Slots : animals_by_num[s] = 0 \/ animals_by_num[s] \in Live
    /\ pc # "undefined"

====
